---- MODULE Spec2Model ----
(***************************************************************************)
(* Model of the trajectory drivers of flare/gp_from_aimd.py                *)
(* (TrajectoryTrainer.run_passive_learning, run_active_learning, pre_run,  *)
(* run, write_model_decision, update_gp_and_print, train_gp) and of the    *)
(* on-the-fly driver of flare/otf.py (OTF.run, initialize_train, run_dft,  *)
(* update_gp, checkpoint, as_dict, from_dict, from_checkpoint).            *)
(*                                                                         *)
(* Conventions.                                                            *)
(*  - A frame is identified by its index in the trajectory the caller      *)
(*    passed in; every frame of a trajectory holds the same atoms, so the  *)
(*    composition of a frame is cfg.species (a sequence of species         *)
(*    labels).  Atoms are numbered 1..Len(cfg.species) (Python: 0..n-1);   *)
(*    the sentinel "no atom" of the in-bound helpers is -1.                *)
(*  - The training set of the GP is gp_envs (environments present before   *)
(*    the driver was called or added by add_one_env, by species) plus      *)
(*    gp_added (how many times atom a of frame f was appended by           *)
(*    update_db).                                                          *)
(*  - Inf stands for math.inf / np.inf, the default of every cap.          *)
(*  - The helpers of flare/utils/learner.py (evaluate_training_atoms,      *)
(*    is_std_in_bound_per_species, is_force_in_bound_per_species) are      *)
(*    modelled from the specification (sections 4.1 and 4.2) with the      *)
(*    arguments the drivers pass them.                                     *)
(***************************************************************************)
EXTENDS Integers, Sequences, FiniteSets, TLC

VARIABLES
    cfg,                      \* arguments of the driver and attributes set by __init__
    pc,                       \* position of the driver
    frames,                   \* self.frames / frames: trajectory indices still to loop over
    seed_frames,              \* self.seed_frames (pre_run)
    gp_envs,                  \* training points not taken by update_db, by species
    gp_added,                 \* [frame, atom] -> times appended by update_db
    i,                        \* loop index of the main frame loop
    train_frame,              \* first index that is validation only
    max_atoms_from_frame,     \* local of run_active_learning (zeroed at saturation)
    train_model_atom_counter, \* run_active_learning: atoms since the last train
    write_model_atom_counter, \* run_active_learning: atoms since the last write
    train_counter,            \* run_active_learning: trainings done in the loop
    cur_atoms_added_train,    \* run: atoms since the last train
    cur_atoms_added_write,    \* run: atoms since the last write
    cur_trains_done_write,    \* run: trainings since the last write
    train_count,              \* self.train_count: calls of train_gp that trained
    refresh_count,            \* calls of gp.update_L_alpha
    training_plan,            \* step index -> record of that step
    compared,                 \* step indices given to write_gp_dft_comparison, in order
    written,                  \* model files written, by name -> number of writes
    atom_count,               \* pre_run: atoms taken from the seed frames
    admitted,                 \* atoms appended to the training set, per loop step
    saturation_logs,          \* times "GP is at maximum model size" was logged
    step_log,                 \* what the last loop step saw and did
    gp_train,                 \* gp.maxiter and the hyperparameters written by train_gp
    pm,                       \* the ParameterMasking object and its hyps_mask
    otf,                      \* the OTF object: its attributes and its GP
    otf_files,                \* <output_name>_checkpt.json and <output_name>_gp.json
    otf_log                   \* what the OTF runs did so far

vars == <<cfg, pc, frames, seed_frames, gp_envs, gp_added, i, train_frame,
          max_atoms_from_frame, train_model_atom_counter,
          write_model_atom_counter, train_counter, cur_atoms_added_train,
          cur_atoms_added_write, cur_trains_done_write, train_count,
          refresh_count, training_plan, compared, written, atom_count,
          admitted, saturation_logs, step_log, gp_train, pm, otf,
          otf_files, otf_log>>

otf_vars == <<otf, otf_files, otf_log>>

\* the variables of the trajectory drivers, pc left out
trainer_vars ==
    <<cfg, frames, seed_frames, gp_envs, gp_added, i, train_frame,
      max_atoms_from_frame, train_model_atom_counter,
      write_model_atom_counter, train_counter, cur_atoms_added_train,
      cur_atoms_added_write, cur_trains_done_write, train_count,
      refresh_count, training_plan, compared, written, atom_count,
      admitted, saturation_logs, step_log, gp_train>>

----------------------------------------------------------------------------
(* Bounds of the model *)

MaxFrames == 3
MaxStd == 2
MaxErr == 3
MaxInitial == 1
MaxAtoms == 2
MaxNoise == 1
MaxIter == 3
MaxTrainCalls == 3
MaxSpecie == 3
MaxLineSpecie == 2
MaxDefine == 2
MaxFrozen == 1

(* math.inf / np.inf *)
Inf == 1000

Species == {"A", "B"}
NoAtom == -1

(* max_iter of train_gp left unset *)
None == -1

Min(a, b) == IF a <= b THEN a ELSE b
Max(a, b) == IF a >= b THEN a ELSE b

RECURSIVE SumOver(_, _)
SumOver(S, f) ==
    IF S = {} THEN 0
    ELSE LET x == CHOOSE y \in S : TRUE IN f[x] + SumOver(S \ {x}, f)

----------------------------------------------------------------------------
(* Frames and the training set *)

Atoms == 1 .. Len(cfg.species)
FrameIds == 0 .. Max(MaxFrames, cfg.n_frames)

\* frame.indices_of_specie(species_i)
indices_of_specie(s) == {a \in Atoms : cfg.species[a] = s}

\* set(frame.coded_species)
coded_species == {cfg.species[a] : a \in Atoms}

\* gp.training_statistics["envs_by_species"] for the training set (init, added)
envs_by_species(init, added) ==
    [s \in Species |->
        init[s] + SumOver({p \in DOMAIN added : cfg.species[p[2]] = s}, added)]

\* len(self.gp) == gp.training_statistics["N"]
gp_len(init, added) == SumOver(DOMAIN init, init) + SumOver(DOMAIN added, added)

\* the training set is replaced by the atoms of the call
update_db_replacing(added, f, train_atoms) ==
    [p \in DOMAIN added |-> IF p[1] = f /\ p[2] \in train_atoms THEN 1 ELSE 0]

\* gp.update_db(frame, forces, custom_range=train_atoms): one point per atom
update_db(added, f, train_atoms) ==
    [p \in DOMAIN added |->
        IF p[1] = f /\ p[2] \in train_atoms THEN added[p] + 1 ELSE added[p]]

\* update_gp_and_print: nothing for an empty list and nothing for a mapped GP
update_gp_and_print(added, f, train_atoms) ==
    IF train_atoms = {} \/ cfg.gp_is_mapped THEN added
    ELSE update_db(added, f, train_atoms)

\* atoms of frame f now in the training set, with multiplicity
added_from(added, f) == SumOver({p \in DOMAIN added : p[1] = f}, added)

\* all subsets of S with exactly n elements (random.sample / shuffle + slice)
SubsetsOfSize(S, n) == {T \in SUBSET S : Cardinality(T) = n}

\* the orders in which "for species_i in set(frame.coded_species)" may run
RECURSIVE Orders(_)
Orders(S) ==
    IF S = {} THEN {<<>>}
    ELSE UNION {{<<s>> \o o : o \in Orders(S \ {s})} : s \in S}

Count(T, s) == Cardinality({a \in T : cfg.species[a] = s})

----------------------------------------------------------------------------
(* run_passive_learning: the species loop of one frame.  p holds the       *)
(* arguments max_atoms_per_frame, max_elts_per_frame, max_model_size,      *)
(* max_model_elts; stats is training_statistics read before the loop.      *)

passive_n_add(s, n_chosen, available_to_add, by_species, p) ==
    Max(0, Min(Cardinality(indices_of_specie(s)),
           Min(p.max_elts_per_frame[s],
           Min(p.max_atoms_per_frame - n_chosen,
           Min(available_to_add - n_chosen,
               p.max_model_elts[s] - by_species[s])))))

RECURSIVE passive_species_loop(_, _, _, _, _)
passive_species_loop(order, train_atoms, available_to_add, by_species, p) ==
    IF order = <<>> THEN {train_atoms}
    ELSE LET s == Head(order)
             n_add == passive_n_add(s, Cardinality(train_atoms),
                                    available_to_add, by_species, p)
         IN  UNION {passive_species_loop(Tail(order), train_atoms \cup T,
                                         available_to_add - n_add, by_species, p)
                    : T \in SubsetsOfSize(indices_of_specie(s), n_add)}

\* the lists train_atoms one frame of run_passive_learning may build
passive_train_atoms(init, added, p) ==
    UNION {passive_species_loop(o, {}, p.max_model_size - gp_len(init, added),
                                envs_by_species(init, added), p)
           : o \in Orders(coded_species)}

----------------------------------------------------------------------------
(* flare/utils/learner.py, from the specification (4.1, 4.2)               *)

\* 4.1 (i): the uncertainty threshold
std_threshold(noise) ==
    Max(cfg.abs_std_tolerance, cfg.rel_std_tolerance * noise)

\* a threshold of 0 is a threshold like any other
std_flagged_above_zero(stds, noise) ==
    {a \in Atoms : stds[a] > std_threshold(noise)}

\* 4.1 (i): atoms untrusted by uncertainty; a tolerance of 0 disables it
std_flagged(stds, noise) ==
    IF std_threshold(noise) = 0 THEN {}
    ELSE {a \in Atoms : stds[a] > std_threshold(noise)}

\* 4.1 (ii): atoms untrusted by their force error
force_flagged(errs) == {a \in Atoms : errs[a] > cfg.abs_force_tolerance}

\* 4.1 (ii): atoms whose error is above the max_force_error ceiling
hard_rejected(errs) == {a \in Atoms : errs[a] > cfg.max_force_error}

Admissible(T, max_total, max_by_species) ==
    /\ Cardinality(T) <= max_total
    /\ \A s \in Species : Count(T, s) <= max_by_species[s]

\* 4.1: the caps applied to the candidates.  Which atoms are kept when a cap
\* binds depends on the predicted values; every selection that cannot be
\* extended is allowed here (largest-first is one of them).
capped_selections(cands, max_total, max_by_species) ==
    {T \in SUBSET cands :
        /\ Admissible(T, max_total, max_by_species)
        /\ \A a \in cands \ T : ~Admissible(T \cup {a}, max_total, max_by_species)}

\* is_std_in_bound_per_species(rel, abs, noise, structure, max_atoms_added,
\* max_by_species): <<in bound, atoms>>, the atoms being [-1] when in bound
is_std_in_bound_per_species(stds, noise, max_atoms_added, max_by_species) ==
    {IF T = {} THEN <<TRUE, {NoAtom}>> ELSE <<FALSE, T>>
     : T \in capped_selections(std_flagged(stds, noise),
                               max_atoms_added, max_by_species)}

\* is_force_in_bound_per_species(abs_force_tolerance, predicted, label,
\* structure, max_atoms_added, max_by_species, max_force_error)
is_force_in_bound_per_species(errs, max_atoms_added, max_by_species) ==
    {IF T = {} THEN <<TRUE, {NoAtom}>> ELSE <<FALSE, T>>
     : T \in capped_selections(force_flagged(errs) \ hard_rejected(errs),
                               max_atoms_added, max_by_species)}

\* 4.2: what is left of the per-species budget of one frame
species_budget(by_species) ==
    [s \in Species |->
        Min(cfg.max_elts_per_frame[s],
            Max(0, cfg.max_model_elts[s] - by_species[s]))]

\* evaluate_training_atoms(..., max_model_elts, max_atoms_from_frame,
\* max_elts_per_frame, training_statistics): <<in_bound, train_atoms>>
evaluate_training_atoms(stds, errs, noise, max_from_frame, by_species) ==
    {<<T = {}, T>>
     : T \in capped_selections(
                (std_flagged(stds, noise) \cup force_flagged(errs))
                    \ hard_rejected(errs),
                max_from_frame, species_budget(by_species))}

----------------------------------------------------------------------------
(* Values a prediction may take *)

StdVals == 0 .. MaxStd
ErrVals == 0 .. MaxErr
NoiseVals == 1 .. MaxNoise

\* the uncertainties the model may predict for the atoms of a frame
predicted_stds ==
    {v \in [Atoms -> StdVals] : \A a \in Atoms : v[a] \in cfg.std_vals[cfg.species[a]]}

\* the errors |predicted - DFT| the atoms of a frame may have
force_errors ==
    {v \in [Atoms -> ErrVals] : \A a \in Atoms : v[a] \in cfg.err_vals[cfg.species[a]]}

\* the comparison is written for the frames of the training part only
comparison_in_training_part(records, curr_step) ==
    IF curr_step < train_frame THEN Append(records, curr_step) ELSE records

\* self.output.write_gp_dft_comparison(curr_step=i, ...): the records written
write_gp_dft_comparison(records, curr_step) == Append(records, curr_step)

\* the uncertainties and the errors of a frame as the records of the model
\* keep them: the values themselves in the configurations that trace them,
\* 0 for every atom in the others
traced(v) == IF cfg.trace_values THEN v ELSE [a \in Atoms |-> 0]

\* a record made of every atom of the frame
plan_record_all_atoms(train_atoms, uncertainties, errors) ==
    {<<a, uncertainties[a], errors[a]>> : a \in Atoms}

\* v[a] of a Python list: a negative index counts from the end of the list
list_item(v, a) == v[IF a < 0 THEN Len(v) + 1 + a ELSE a]

\* lines 512-516 and 849-853: the record of one step of the training plan
plan_record(train_atoms, uncertainties, errors) ==
    {<<a, list_item(uncertainties, a), list_item(errors, a)>> : a \in train_atoms}

FileNames == {"saturated", "checkpt", "prerun", "model", "training_plan"}

write_file(w, name) == [w EXCEPT ![name] = @ + 1]

NoStep ==
    [frame |-> NoAtom, step |-> NoAtom, in_bound |-> TRUE, train_atoms |-> {},
     added |-> {}, added_rejected |-> {}, refused |-> FALSE,
     trained |-> FALSE, wrote |-> FALSE,
     by_trains |-> FALSE, by_atoms |-> FALSE,
     uncertainties |-> [a \in Atoms |-> 0],
     force_errors |-> [a \in Atoms |-> 0]]

\* int(x / 100): int() rounds towards zero
int_of_hundredths(x) == IF x >= 0 THEN x \div 100 ELSE -((-x) \div 100)

\* every frame is a frame of the training part
train_frame_all(n) == n

\* int(len(frames) * (1 - validate_ratio)), validate_ratio = validate_pct / 100
train_frame_of(n) == int_of_hundredths(n * (100 - cfg.validate_pct))

----------------------------------------------------------------------------
(* write_model_decision *)

\* lines 589-593: the train checkpoint interval
train_interval_fires(write_model_train_interval, n_trains) ==
    write_model_train_interval # 0
        /\ n_trains % write_model_train_interval = 0

\* lines 595-600: the atoms added checkpoint interval
atom_interval_fires(write_model_atom_interval, atom_counter) ==
    write_model_atom_interval # 0 /\ atom_counter # 0
        /\ write_model_atom_interval <= atom_counter

\* will_write of write_model_decision
write_model_decision(write_model_train_interval, atom_counter, write_model_atom_interval, n_trains) ==
    \/ train_interval_fires(write_model_train_interval, n_trains)
    \/ atom_interval_fires(write_model_atom_interval, atom_counter)

----------------------------------------------------------------------------
(* train_gp: the GP and the run log *)

\* no call of train_gp yet on a GP whose maxiter is m
untrained(m) == [maxiter |-> m, log |-> << >>]

\* what train_gp does to the GP and writes to the run log: max_iter the
\* argument, optimized whether gp.train ran, maxiter the gp.maxiter it ran
\* with, refreshed whether only check_L_alpha ran
hyps_written(g, max_iter) ==
    [max_iter  |-> max_iter,
     optimized |-> max_iter # 0,
     maxiter   |-> IF max_iter = 0 THEN None
                   ELSE IF max_iter # None THEN max_iter ELSE g.maxiter,
     refreshed |-> max_iter = 0]

\* gp.maxiter keeps the value of max_iter after the training
gp_after_train_gp_unrestored(g, max_iter) ==
    IF cfg.gp_is_mapped THEN g
    ELSE [maxiter |-> IF max_iter \notin {0, None} THEN max_iter ELSE g.maxiter,
          log     |-> Append(g.log, hyps_written(g, max_iter))]

\* lines 986-1021: the GP and the run log after train_gp(max_iter); the
\* temporary maxiter is put back at line 1005
gp_after_train_gp(g, max_iter) ==
    IF cfg.gp_is_mapped THEN g
    ELSE [maxiter |-> g.maxiter,
          log     |-> Append(g.log, hyps_written(g, max_iter))]

----------------------------------------------------------------------------
(* run_passive_learning called by the user *)

\* the arguments of the call
passive_arguments ==
    [max_atoms_per_frame |-> cfg.max_atoms_per_frame,
     max_elts_per_frame  |-> cfg.max_elts_per_frame,
     max_model_size      |-> cfg.max_model_size,
     max_model_elts      |-> cfg.max_model_elts]

\* lines 284-304: the seed environments are all added
PassiveStart ==
    /\ pc = "passive_start"
    /\ IF cfg.gp_is_mapped
       THEN pc' = "aborted" /\ UNCHANGED gp_envs
       ELSE /\ pc' = "passive_loop"
            /\ gp_envs' = [s \in Species |-> gp_envs[s] + cfg.environments[s]]
    /\ i' = 0
    /\ UNCHANGED <<otf_vars, pm, gp_train, cfg, frames, seed_frames, gp_added, train_frame,
                   max_atoms_from_frame, train_model_atom_counter,
                   write_model_atom_counter, train_counter,
                   cur_atoms_added_train, cur_atoms_added_write,
                   cur_trains_done_write, train_count, refresh_count,
                   training_plan, compared, written, atom_count, step_log,
                   admitted, saturation_logs>>

\* lines 308-339: one frame of the main frame loop
PassiveFrame ==
    /\ pc = "passive_loop"
    /\ i < Len(frames)
    /\ \E train_atoms \in passive_train_atoms(gp_envs, gp_added, passive_arguments) :
         /\ gp_added' = update_gp_and_print(gp_added, frames[i + 1], train_atoms)
         /\ step_log' = [NoStep EXCEPT !.frame = frames[i + 1], !.step = i,
                                       !.train_atoms = train_atoms,
                                       !.added = train_atoms]
    /\ i' = i + 1
    /\ UNCHANGED <<otf_vars, pm, gp_train, cfg, pc, frames, seed_frames, gp_envs, train_frame,
                   max_atoms_from_frame, train_model_atom_counter,
                   write_model_atom_counter, train_counter,
                   cur_atoms_added_train, cur_atoms_added_write,
                   cur_trains_done_write, train_count, refresh_count,
                   training_plan, compared, written, atom_count,
                   admitted, saturation_logs>>

\* lines 341-363: the training after the frames
PassiveFinish ==
    /\ pc = "passive_loop"
    /\ i = Len(frames)
    /\ pc' = "done"
    /\ train_count' = IF cfg.post_training_iterations # 0
                      THEN train_count + 1 ELSE train_count
    /\ gp_train' = IF cfg.post_training_iterations # 0
                    THEN gp_after_train_gp(gp_train,
                                           cfg.post_training_iterations)
                    ELSE gp_train
    /\ UNCHANGED <<otf_vars, pm, cfg, frames, seed_frames, gp_envs, gp_added, i, train_frame,
                   max_atoms_from_frame, train_model_atom_counter,
                   write_model_atom_counter, train_counter,
                   cur_atoms_added_train, cur_atoms_added_write,
                   cur_trains_done_write, refresh_count, training_plan,
                   compared, written, atom_count, step_log,
                   admitted, saturation_logs>>

\* lines 577-605: write_model_decision called with the counters of the caller
WriteModelDecision ==
    /\ pc = "write_model_decision"
    /\ pc' = "returned"
    /\ LET by_trains  == train_interval_fires(cfg.write_model_train_interval,
                                              train_counter)
           by_atoms   == atom_interval_fires(cfg.write_model_atom_interval,
                                             write_model_atom_counter)
           will_write == write_model_decision(
                             cfg.write_model_train_interval,
                             write_model_atom_counter,
                             cfg.write_model_atom_interval, train_counter)
       IN  /\ written' = IF cfg.model_format /\ will_write
                         THEN write_file(written, "checkpt") ELSE written
           /\ step_log' = [NoStep EXCEPT !.wrote = cfg.model_format /\ will_write,
                                         !.by_trains = by_trains,
                                         !.by_atoms = by_atoms]
    /\ UNCHANGED <<otf_vars, pm, gp_train, cfg, frames, seed_frames, gp_envs, gp_added, i, train_frame,
                   max_atoms_from_frame, train_model_atom_counter,
                   write_model_atom_counter, train_counter,
                   cur_atoms_added_train, cur_atoms_added_write,
                   cur_trains_done_write, train_count, refresh_count,
                   training_plan, compared, atom_count,
                   admitted, saturation_logs>>

----------------------------------------------------------------------------
(* train_gp *)

\* self.train_count after train_gp(max_iter): a mapped GP is not trained
train_gp(count) == IF cfg.gp_is_mapped THEN count ELSE count + 1

----------------------------------------------------------------------------
(* run_active_learning *)

\* the arguments of the seeding call
\* run_passive_learning(frames[0:1], max_model_elts={elt: 1 for elt in ...})
seed_arguments ==
    [max_atoms_per_frame |-> Inf,
     max_elts_per_frame  |-> [s \in Species |-> Inf],
     max_model_size      |-> Inf,
     max_model_elts      |-> [s \in Species |->
                                 IF s \in coded_species THEN 1 ELSE Inf]]

\* the condition of "if len(self.gp) + len(train_atoms) <= max_model_size"
admission_fits(n_gp, n_atoms) == n_gp + n_atoms <= cfg.max_model_size

\* the branch forgets to zero the budget
saturated_budget_kept(budget) == budget

\* max_atoms_from_frame after the branch "GP is at maximum model size"
saturated_budget(budget) == 0

\* the counter has to pass min_atoms_per_train
active_retrain_late(atom_counter, step, n_trains) ==
    \/ atom_counter > cfg.min_atoms_per_train
    \/ (step + 1 = train_frame /\ n_trains <= cfg.max_trains)

\* no training at the last frame of the training part
active_retrain_no_flush(atom_counter, step, n_trains) ==
    atom_counter >= cfg.min_atoms_per_train

\* the condition of "Re-train if number of sampled atoms is high enough"
active_retrain(atom_counter, step, n_trains) ==
    \/ atom_counter >= cfg.min_atoms_per_train
    \/ (step + 1 = train_frame /\ n_trains <= cfg.max_trains)

\* the trust evaluation is given the argument max_atoms_from_frame as it was
\* passed in, not the local the saturation branch zeroes
active_outcomes_initial_budget ==
    {[rejected |-> hard_rejected(errs),
      uncertainties |-> traced(stds), force_errors |-> traced(errs),
      results  |-> IF i < train_frame
                   THEN evaluate_training_atoms(
                            stds, errs, IF cfg.gp_is_mapped THEN 0 ELSE noise,
                            cfg.max_atoms_from_frame,
                            envs_by_species(gp_envs, gp_added))
                   ELSE {<<TRUE, {}>>}]
     : noise \in NoiseVals, stds \in predicted_stds, errs \in force_errors}

\* lines 420-506: what the prediction of the current frame and the trust
\* evaluation may give: the atoms above the max_force_error ceiling and the
\* possible <<in_bound, train_atoms>>
active_outcomes ==
    {[rejected |-> hard_rejected(errs),
      uncertainties |-> traced(stds), force_errors |-> traced(errs),
      results  |-> IF i < train_frame
                   THEN evaluate_training_atoms(
                            stds, errs, IF cfg.gp_is_mapped THEN 0 ELSE noise,
                            max_atoms_from_frame,
                            envs_by_species(gp_envs, gp_added))
                   ELSE {<<TRUE, {}>>}]
     : noise \in NoiseVals, stds \in predicted_stds, errs \in force_errors}

\* lines 388-413: seeding of an empty model, train_frame, the counters
ActiveStart ==
    /\ pc = "active_start"
    /\ IF gp_len(gp_envs, gp_added) = 0 /\ cfg.gp_is_mapped
       THEN \* run_passive_learning raises NotImplementedError
            /\ pc' = "aborted"
            /\ UNCHANGED <<gp_added, train_frame>>
       ELSE /\ pc' = "active_loop"
            /\ train_frame' = train_frame_of(Len(frames))
            /\ IF gp_len(gp_envs, gp_added) = 0
               THEN \E train_atoms \in
                        passive_train_atoms(gp_envs, gp_added, seed_arguments) :
                      gp_added' = update_gp_and_print(gp_added, frames[1], train_atoms)
               ELSE UNCHANGED gp_added
    /\ i' = 0
    /\ train_model_atom_counter' = 0
    /\ write_model_atom_counter' = 0
    /\ train_counter' = 0
    /\ training_plan' = << >>
    /\ UNCHANGED <<otf_vars, pm, gp_train, cfg, frames, seed_frames, gp_envs, max_atoms_from_frame,
                   cur_atoms_added_train, cur_atoms_added_write,
                   cur_trains_done_write, train_count, refresh_count,
                   compared, written, atom_count, step_log,
                   admitted, saturation_logs>>

\* lines 416-562: one iteration of the main loop
ActiveStep ==
    /\ pc = "active_loop"
    /\ i < Len(frames)
    /\ \E o \in active_outcomes :
       \E r \in o.results :
         LET f           == frames[i + 1]
             in_bound    == r[1]
             train_atoms == r[2]
             n_atoms     == Cardinality(train_atoms)
             recorded    == i < train_frame /\ ~in_bound
             \* "if self.gp_is_mapped: continue"
             admitting   == recorded /\ ~cfg.gp_is_mapped
             fits        == admission_fits(gp_len(gp_envs, gp_added), n_atoms)
             atoms_train == train_model_atom_counter + n_atoms
             atoms_write == write_model_atom_counter + n_atoms
             retrain     == active_retrain(atoms_train, i, train_counter)
             trains      == IF retrain THEN train_counter + 1 ELSE train_counter
             will_write  == write_model_decision(
                                cfg.write_model_train_interval, atoms_write,
                                cfg.write_model_atom_interval, trains)
             saturated   == IF admitting /\ ~fits /\ cfg.model_format
                            THEN write_file(written, "saturated") ELSE written
         IN  /\ compared' = write_gp_dft_comparison(compared, i)
             /\ training_plan' =
                    IF recorded
                    THEN [k \in DOMAIN training_plan \cup {i} |->
                             IF k = i
                             THEN plan_record(train_atoms, o.uncertainties,
                                              o.force_errors)
                             ELSE training_plan[k]]
                    ELSE training_plan
             /\ gp_added' = IF admitting /\ fits
                            THEN update_gp_and_print(gp_added, f, train_atoms)
                            ELSE gp_added
             /\ admitted' = Append(admitted, IF admitting /\ fits THEN n_atoms ELSE 0)
             /\ max_atoms_from_frame' =
                    IF admitting /\ ~fits
                    THEN saturated_budget(max_atoms_from_frame)
                    ELSE max_atoms_from_frame
             /\ saturation_logs' = IF admitting /\ ~fits
                                   THEN saturation_logs + 1 ELSE saturation_logs
             /\ train_model_atom_counter' =
                    IF ~admitting THEN train_model_atom_counter
                    ELSE IF retrain THEN 0 ELSE atoms_train
             /\ train_counter' = IF admitting THEN trains ELSE train_counter
             /\ train_count' = IF admitting /\ retrain
                               THEN train_gp(train_count) ELSE train_count
             /\ gp_train' = IF admitting /\ retrain
                             THEN gp_after_train_gp(gp_train, None)
                             ELSE gp_train
             /\ refresh_count' = IF admitting /\ ~retrain
                                 THEN refresh_count + 1 ELSE refresh_count
             /\ write_model_atom_counter' =
                    IF ~admitting THEN write_model_atom_counter
                    ELSE IF will_write THEN 0 ELSE atoms_write
             /\ written' = IF admitting /\ will_write /\ cfg.model_format
                           THEN write_file(saturated, "checkpt") ELSE saturated
             /\ step_log' =
                    [frame |-> f, step |-> i,
                     in_bound |-> in_bound, train_atoms |-> train_atoms,
                     added |-> IF admitting /\ fits THEN train_atoms ELSE {},
                     added_rejected |->
                         IF admitting /\ fits
                         THEN train_atoms \cap o.rejected ELSE {},
                     refused |-> admitting /\ ~fits,
                     trained |-> admitting /\ retrain,
                     wrote |-> admitting /\ will_write /\ cfg.model_format,
                     by_trains |-> admitting /\ train_interval_fires(
                                      cfg.write_model_train_interval, trains),
                     by_atoms |-> admitting /\ atom_interval_fires(
                                      cfg.write_model_atom_interval, atoms_write),
                     uncertainties |-> o.uncertainties,
                     force_errors |-> o.force_errors]
    /\ i' = i + 1
    /\ UNCHANGED <<otf_vars, pm, cfg, pc, frames, seed_frames, gp_envs, train_frame,
                   cur_atoms_added_train, cur_atoms_added_write,
                   cur_trains_done_write, atom_count>>

\* lines 564-575: conclusion of the run
ActiveConclude ==
    /\ pc = "active_loop"
    /\ i = Len(frames)
    /\ pc' = "done"
    /\ written' =
         LET plan == IF cfg.print_training_plan
                     THEN write_file(written, "training_plan") ELSE written
         IN  IF cfg.model_format /\ cfg.post_write /\ ~cfg.gp_is_mapped
             THEN write_file(plan, "model") ELSE plan
    /\ UNCHANGED <<otf_vars, pm, gp_train, cfg, frames, seed_frames, gp_envs, gp_added, i, train_frame,
                   max_atoms_from_frame, train_model_atom_counter,
                   write_model_atom_counter, train_counter,
                   cur_atoms_added_train, cur_atoms_added_write,
                   cur_trains_done_write, train_count, refresh_count,
                   training_plan, compared, atom_count, step_log,
                   admitted, saturation_logs>>

----------------------------------------------------------------------------
(* pre_run and run *)

\* frames[::skip]
RECURSIVE every_skip(_, _)
every_skip(fs, skip) ==
    IF fs = << >> THEN << >>
    ELSE <<Head(fs)>> \o
         every_skip(SubSeq(fs, Min(skip, Len(fs)) + 1, Len(fs)), skip)

\* the frames at the positions k of fs (0-based) for which keep(k) holds
RECURSIVE positions(_, _, _)
positions(fs, k, on_skips) ==
    IF fs = << >> THEN [seed |-> << >>, rest |-> << >>]
    ELSE LET t == positions(Tail(fs), k + 1, on_skips)
         IN  IF k % on_skips = 0
             THEN [seed |-> <<Head(fs)>> \o t.seed, rest |-> t.rest]
             ELSE [seed |-> t.seed, rest |-> <<Head(fs)>> \o t.rest]

\* lines 664-668: n_to_add of one species of a seed frame
pre_run_n_to_add(s) ==
    Min(Cardinality(indices_of_specie(s)),
        Min(cfg.pre_train_env_per_species[s], cfg.max_atoms_from_frame))

\* lines 656-672: the lists train_atoms pre_run may build from a seed frame
RECURSIVE pre_run_train_atoms(_)
pre_run_train_atoms(todo) ==
    IF todo = {} THEN {{}}
    ELSE LET s == CHOOSE x \in todo : TRUE
         IN  {T \cup U : T \in SubsetsOfSize(indices_of_specie(s),
                                             pre_run_n_to_add(s)),
                         U \in pre_run_train_atoms(todo \ {s})}

\* the condition of lines 867-870
run_retrain(atom_counter, step) ==
    \/ atom_counter >= cfg.min_atoms_per_train
    \/ step + 1 = train_frame

\* the condition of line 871
run_may_train(count) == count < cfg.max_trains

\* the union of both lists, the sentinel left in
run_train_atoms_unfiltered(std_train_atoms, force_train_atoms) ==
    std_train_atoms \cup force_train_atoms

\* lines 844-846: the union of both lists without the sentinel
run_train_atoms(std_train_atoms, force_train_atoms) ==
    (std_train_atoms \cup force_train_atoms) \ {NoAtom}

\* lines 723-727 and 607-652: the seed environments, the choice of the seed frames
RunStart ==
    /\ pc = "run_start"
    /\ IF cfg.gp_is_mapped
       THEN /\ pc' = "run_setup"
            /\ UNCHANGED <<gp_envs, frames, seed_frames>>
       ELSE /\ pc' = "pre_run_seed"
            /\ gp_envs' = [s \in Species |-> gp_envs[s] + cfg.seed_envs[s]]
            /\ IF cfg.pre_train_on_skips > 0
               THEN LET t == positions(frames, 0, cfg.pre_train_on_skips)
                    IN  seed_frames' = t.seed /\ frames' = t.rest
               ELSE IF gp_len(gp_envs', gp_added) = 0 /\ Len(seed_frames) = 0
               THEN seed_frames' = <<frames[1]>> /\ frames' = Tail(frames)
               ELSE UNCHANGED <<frames, seed_frames>>
    /\ atom_count' = 0
    /\ i' = 0
    /\ UNCHANGED <<otf_vars, pm, gp_train, cfg, gp_added, train_frame, max_atoms_from_frame,
                   train_model_atom_counter, write_model_atom_counter,
                   train_counter, cur_atoms_added_train, cur_atoms_added_write,
                   cur_trains_done_write, train_count, refresh_count,
                   training_plan, compared, written, step_log,
                   admitted, saturation_logs>>

\* lines 655-679: one seed frame (i counts the seed frames done)
PreRunSeedFrame ==
    /\ pc = "pre_run_seed"
    /\ i < Len(seed_frames)
    /\ \E train_atoms \in pre_run_train_atoms(coded_species) :
         /\ gp_added' = update_gp_and_print(gp_added, seed_frames[i + 1], train_atoms)
         /\ atom_count' = atom_count + Cardinality(train_atoms)
    /\ i' = i + 1
    /\ UNCHANGED <<otf_vars, pm, gp_train, cfg, pc, frames, seed_frames, gp_envs, train_frame,
                   max_atoms_from_frame, train_model_atom_counter,
                   write_model_atom_counter, train_counter,
                   cur_atoms_added_train, cur_atoms_added_write,
                   cur_trains_done_write, train_count, refresh_count,
                   training_plan, compared, written, step_log,
                   admitted, saturation_logs>>

\* lines 681-709: the pre-run training and the pre-run model
PreRunTrain ==
    /\ pc = "pre_run_seed"
    /\ i = Len(seed_frames)
    /\ pc' = "run_setup"
    /\ train_count' =
         IF (SumOver(Species, cfg.seed_envs) # 0 \/ atom_count # 0
                \/ Len(seed_frames) # 0)
            /\ (cfg.pre_train_max_iter # 0 \/ cfg.max_trains # 0)
         THEN train_gp(train_count) ELSE train_count
    /\ gp_train' =
         IF (SumOver(Species, cfg.seed_envs) # 0 \/ atom_count # 0
                \/ Len(seed_frames) # 0)
            /\ (cfg.pre_train_max_iter # 0 \/ cfg.max_trains # 0)
         THEN gp_after_train_gp(gp_train, cfg.pre_train_max_iter)
         ELSE gp_train
    /\ written' = IF cfg.model_format /\ ~cfg.gp_is_mapped
                  THEN write_file(written, "prerun") ELSE written
    /\ UNCHANGED <<otf_vars, pm, cfg, frames, seed_frames, gp_envs, gp_added, i, train_frame,
                   max_atoms_from_frame, train_model_atom_counter,
                   write_model_atom_counter, train_counter,
                   cur_atoms_added_train, cur_atoms_added_write,
                   cur_trains_done_write, refresh_count, training_plan,
                   compared, atom_count, step_log,
                   admitted, saturation_logs>>

\* lines 729-739: train_frame and the counters of run
RunSetup ==
    /\ pc = "run_setup"
    /\ pc' = "run_loop"
    /\ train_frame' = train_frame_of(Len(every_skip(frames, cfg.skip)))
    /\ cur_atoms_added_train' = 0
    /\ cur_atoms_added_write' = 0
    /\ cur_trains_done_write' = 0
    /\ training_plan' = << >>
    /\ i' = 0
    /\ UNCHANGED <<otf_vars, pm, gp_train, cfg, frames, seed_frames, gp_envs, gp_added,
                   max_atoms_from_frame, train_model_atom_counter,
                   write_model_atom_counter, train_counter, train_count,
                   refresh_count, compared, written, atom_count, step_log,
                   admitted, saturation_logs>>

\* lines 746-838: what the prediction of the current frame and the two
\* in-bound helpers may give
run_outcomes ==
    {[rejected |-> hard_rejected(errs),
      uncertainties |-> traced(stds), force_errors |-> traced(errs),
      results  |-> IF i < train_frame
                   THEN is_std_in_bound_per_species(
                            stds, IF cfg.gp_is_mapped THEN 0 ELSE noise,
                            cfg.max_atoms_from_frame, cfg.train_env_per_species)
                        \X is_force_in_bound_per_species(
                            errs, cfg.max_atoms_from_frame,
                            cfg.train_env_per_species)
                   ELSE {<<<<TRUE, {NoAtom}>>, <<TRUE, {NoAtom}>>>>}]
     : noise \in NoiseVals, stds \in predicted_stds, errs \in force_errors}

\* lines 741-906: one iteration of the loop of run
RunStep ==
    /\ pc = "run_loop"
    /\ i < Len(every_skip(frames, cfg.skip))
    /\ \E o \in run_outcomes :
       \E r \in o.results :
         LET f             == every_skip(frames, cfg.skip)[i + 1]
             std_in_bound  == r[1][1]
             force_in_bound == r[2][1]
             recorded      == i < train_frame /\ (~std_in_bound \/ ~force_in_bound)
             train_atoms   == run_train_atoms(r[1][2], r[2][2])
             n_atoms       == Cardinality(train_atoms)
             atoms_train   == cur_atoms_added_train + n_atoms
             atoms_write   == cur_atoms_added_write + n_atoms
             retrain       == run_retrain(atoms_train, i)
             training      == retrain /\ run_may_train(train_count)
             trains_write  == IF training THEN cur_trains_done_write + 1
                              ELSE cur_trains_done_write
             by_trains     == cfg.train_checkpoint_interval # 0 /\ trains_write # 0
                              /\ cfg.train_checkpoint_interval <= trains_write
             by_atoms      == cfg.atom_checkpoint_interval # 0 /\ atoms_write # 0
                              /\ cfg.atom_checkpoint_interval <= atoms_write
         IN  /\ compared' = write_gp_dft_comparison(compared, i)
             /\ training_plan' =
                    IF recorded
                    THEN [k \in DOMAIN training_plan \cup {i} |->
                             IF k = i
                             THEN plan_record(train_atoms, o.uncertainties,
                                              o.force_errors)
                             ELSE training_plan[k]]
                    ELSE training_plan
             /\ gp_added' = IF recorded
                            THEN update_gp_and_print(gp_added, f, train_atoms)
                            ELSE gp_added
             /\ admitted' = Append(admitted, IF recorded /\ ~cfg.gp_is_mapped
                                             THEN n_atoms ELSE 0)
             /\ cur_atoms_added_train' =
                    IF ~recorded THEN cur_atoms_added_train
                    ELSE IF retrain THEN 0 ELSE atoms_train
             /\ train_count' = IF recorded /\ training
                               THEN train_gp(train_count) ELSE train_count
             /\ gp_train' = IF recorded /\ training
                             THEN gp_after_train_gp(gp_train, None)
                             ELSE gp_train
             /\ refresh_count' = IF recorded /\ ~training
                                 THEN refresh_count + 1 ELSE refresh_count
             /\ cur_trains_done_write' =
                    IF ~recorded THEN cur_trains_done_write
                    ELSE IF by_trains THEN 0 ELSE trains_write
             /\ cur_atoms_added_write' =
                    IF ~recorded THEN cur_atoms_added_write
                    ELSE IF by_atoms THEN 0 ELSE atoms_write
             /\ written' = IF recorded /\ (by_trains \/ by_atoms) /\ cfg.model_format
                           THEN write_file(written, "checkpt") ELSE written
             /\ step_log' =
                    [frame |-> f, step |-> i,
                     in_bound |-> ~recorded,
                     train_atoms |-> IF recorded THEN train_atoms ELSE {},
                     added |-> IF recorded /\ ~cfg.gp_is_mapped
                               THEN train_atoms ELSE {},
                     added_rejected |->
                         IF recorded /\ ~cfg.gp_is_mapped
                         THEN train_atoms \cap o.rejected ELSE {},
                     refused |-> FALSE,
                     trained |-> recorded /\ training,
                     wrote |-> recorded /\ (by_trains \/ by_atoms)
                               /\ cfg.model_format,
                     by_trains |-> recorded /\ by_trains,
                     by_atoms |-> recorded /\ by_atoms,
                     uncertainties |-> o.uncertainties,
                     force_errors |-> o.force_errors]
    /\ i' = i + 1
    /\ UNCHANGED <<otf_vars, pm, cfg, pc, frames, seed_frames, gp_envs, train_frame,
                   max_atoms_from_frame, train_model_atom_counter,
                   write_model_atom_counter, train_counter, atom_count,
                   saturation_logs>>

\* lines 908-919: conclusion of run
RunConclude ==
    /\ pc = "run_loop"
    /\ i = Len(every_skip(frames, cfg.skip))
    /\ pc' = "done"
    /\ written' =
         LET plan == IF cfg.print_training_plan
                     THEN write_file(written, "training_plan") ELSE written
         IN  IF cfg.model_format /\ ~cfg.gp_is_mapped
             THEN write_file(plan, "model") ELSE plan
    /\ UNCHANGED <<otf_vars, pm, gp_train, cfg, frames, seed_frames, gp_envs, gp_added, i, train_frame,
                   max_atoms_from_frame, train_model_atom_counter,
                   write_model_atom_counter, train_counter,
                   cur_atoms_added_train, cur_atoms_added_write,
                   cur_trains_done_write, train_count, refresh_count,
                   training_plan, compared, atom_count, step_log,
                   admitted, saturation_logs>>

----------------------------------------------------------------------------
(* flare/otf.py: the on-the-fly driver                                     *)
(*                                                                         *)
(* The OTF object is the record otf: the arguments kept by __init__, the   *)
(* counters of the run, and of its GP the number of training points        *)
(* (gp_size) and the number of hyperparameter optimisations its            *)
(* hyperparameters come from (gp_hyps).  The MD log of record_state, the   *)
(* temperature and the positions are left out.  is_std_in_bound            *)
(* (flare/utils/learner.py) and the DFT module are inputs of a step.       *)

\* bounds of the on-the-fly model
MaxSteps == 3
MaxRestarts == 1

\* lines 137-215: the object __init__ makes from its arguments
OTF_init(a) ==
    [number_of_steps |-> a.number_of_steps,
     std_tolerance |-> a.std_tolerance_factor,
     max_atoms_added |-> a.max_atoms_added,
     freeze_hyps |-> a.freeze_hyps,
     min_steps_with_model |-> a.min_steps_with_model,
     write_model |-> a.write_model,
     n_init_atoms |-> a.n_init_atoms,
     dft_step |-> TRUE, dft_count |-> 0, curr_step |-> 0,
     steps_since_dft |-> 0,
     gp_size |-> a.gp.gp_size, gp_hyps |-> a.gp.gp_hyps]

\* the GP of the object, as write_gp stores it
gp_of(o) == [gp_size |-> o.gp_size, gp_hyps |-> o.gp_hyps]

\* lines 517-528: vars(self) with the GP replaced by the name of its file
as_dict(o) ==
    [number_of_steps |-> o.number_of_steps,
     std_tolerance |-> o.std_tolerance,
     max_atoms_added |-> o.max_atoms_added,
     freeze_hyps |-> o.freeze_hyps,
     min_steps_with_model |-> o.min_steps_with_model,
     write_model |-> o.write_model,
     n_init_atoms |-> o.n_init_atoms,
     dft_step |-> o.dft_step, dft_count |-> o.dft_count,
     curr_step |-> o.curr_step, steps_since_dft |-> o.steps_since_dft]

\* from_dict that takes the counters as __init__ leaves them
from_dict_fresh_counters(d, gp_model) ==
    [OTF_init([number_of_steps |-> d.number_of_steps,
               std_tolerance_factor |-> 1,
               max_atoms_added |-> d.max_atoms_added,
               freeze_hyps |-> d.freeze_hyps,
               min_steps_with_model |-> d.min_steps_with_model,
               write_model |-> d.write_model,
               n_init_atoms |-> d.n_init_atoms,
               gp |-> gp_model])
     EXCEPT !.std_tolerance = d.std_tolerance]

\* lines 530-552: OTF(**in_dict) takes the entries that are arguments of
\* __init__ (std_tolerance_factor is not in the dictionary and gets its
\* default 1; dft_step and steps_since_dft are set by __init__), then the
\* three assignments of lines 549-551
from_dict(d, gp_model) ==
    [OTF_init([number_of_steps |-> d.number_of_steps,
               std_tolerance_factor |-> 1,
               max_atoms_added |-> d.max_atoms_added,
               freeze_hyps |-> d.freeze_hyps,
               min_steps_with_model |-> d.min_steps_with_model,
               write_model |-> d.write_model,
               n_init_atoms |-> d.n_init_atoms,
               gp |-> gp_model])
     EXCEPT !.dft_count = d.dft_count, !.curr_step = d.curr_step,
            !.std_tolerance = d.std_tolerance]

\* the state of a file: absent, opened for writing and not yet complete, or
\* complete with its content
absent_file(c) == [state |-> "absent", content |-> c]
partial_file(c) == [state |-> "partial", content |-> c]
complete_file(c) == [state |-> "complete", content |-> c]

\* lines 241-245: the first step of a run on an empty GP trains the initial
\* model
initial_training(o) ==
    o.curr_step = 0 /\ o.std_tolerance # 0 /\ o.gp_size = 0

\* DFT is called whenever the uncertainty is out of bound
oracle_wanted_at_once(o, std_in_bound) == ~std_in_bound

\* lines 268-270
oracle_wanted(o, std_in_bound) ==
    ~std_in_bound /\ o.steps_since_dft > o.min_steps_with_model

\* lines 391-395: run_dft once run_dft_par has returned
run_dft(o) == [o EXCEPT !.dft_count = @ + 1]

\* the hyperparameters are optimised at every update
hyps_trained_always(o) == TRUE

\* line 445
hyps_trained(o) == o.dft_count - 1 < o.freeze_hyps

\* the model is written after the updates that train only
gp_written_after_training_only(o) == hyps_trained(o) /\ o.write_model >= 2

\* lines 445-450: update_gp writes the model
gp_written(o) ==
    \/ hyps_trained(o) /\ o.write_model = 2
    \/ o.write_model = 3

\* the forces of the oracle are not given to the GP
update_gp_skipped(o, n_atoms) == o

\* lines 427-446: update_gp, n_atoms the length of train_atoms
update_gp(o, n_atoms) ==
    [o EXCEPT !.gp_size = @ + n_atoms,
              !.gp_hyps = IF hyps_trained(o) THEN @ + 1 ELSE @]

\* the step is taken and the step counter is left as it was
md_step_uncounted(o) == [o EXCEPT !.steps_since_dft = @ + 1]

\* lines 306-310: the positions are advanced and the step is counted
md_step(o) == [o EXCEPT !.steps_since_dft = @ + 1, !.curr_step = @ + 1]

\* nothing has been done by an OTF run
NoOTFStep ==
    [step |-> NoAtom, initial |-> FALSE, oracle |-> FALSE, failed |-> FALSE,
     updated |-> FALSE, trained |-> FALSE, gp_written |-> FALSE,
     at_end |-> FALSE]

\* the steps without a call of the oracle since its last call
quiet_after(log, called) == IF called THEN 0 ELSE log.quiet_steps + 1

\* lines 226-237: run is entered
OTFRun ==
    /\ pc = "otf_constructed"
    /\ pc' = "otf_loop"
    /\ otf_log' = [otf_log EXCEPT !.start_step = otf.curr_step,
                                  !.executed = << >>, !.last = NoOTFStep,
                                  !.updates = 0]
    /\ UNCHANGED <<otf, otf_files, trainer_vars, pm>>

\* lines 239-310: one iteration of the loop up to curr_step += 1;
\* oracle_outcomes says whether run_dft_par may return (TRUE), raise (FALSE)
OTFStepWhere(oracle_outcomes) ==
    /\ pc = "otf_loop"
    /\ otf.curr_step < otf.number_of_steps
    /\ \E std_in_bound \in BOOLEAN, oracle_returns \in oracle_outcomes,
          n_target \in 1 .. otf.max_atoms_added :
         LET first   == initial_training(otf)
             called  == first \/ oracle_wanted(otf, std_in_bound)
             \* lines 255, 277-278
             before  == IF first THEN otf
                        ELSE IF called
                        THEN [otf EXCEPT !.dft_step = TRUE, !.steps_since_dft = 0]
                        ELSE [otf EXCEPT !.dft_step = FALSE]
             n_atoms == IF first THEN otf.n_init_atoms ELSE n_target
             labelled == run_dft(before)
             updated == update_gp(labelled, n_atoms)
             last    == [step |-> otf.curr_step, initial |-> first,
                         oracle |-> called,
                         failed |-> called /\ ~oracle_returns,
                         updated |-> called /\ oracle_returns,
                         trained |-> called /\ oracle_returns
                                        /\ hyps_trained(labelled),
                         gp_written |-> called /\ oracle_returns
                                           /\ gp_written(labelled),
                         at_end |-> FALSE]
         IN  /\ otf_log' =
                    [otf_log EXCEPT
                        !.last = last,
                        !.executed = Append(@, otf.curr_step),
                        !.oracle_calls = IF called THEN @ + 1 ELSE @,
                        !.quiet_before = IF called THEN otf_log.quiet_steps ELSE @,
                        !.quiet_steps = quiet_after(otf_log, called),
                        !.unsure_before = IF called THEN otf_log.unsure_steps ELSE @,
                        !.unsure_steps = IF called THEN 0
                                         ELSE IF std_in_bound THEN @ ELSE @ + 1,
                        !.trainings = IF last.trained THEN @ + 1 ELSE @,
                        !.updates = IF last.updated THEN @ + 1 ELSE @]
             /\ IF called /\ ~oracle_returns
                THEN \* run_dft_par raises: nothing catches it in run
                     /\ pc' = "otf_failed"
                     /\ otf' = before
                     /\ UNCHANGED otf_files
                ELSE /\ pc' = IF otf.write_model = 3
                             THEN "otf_step_end" ELSE "otf_loop"
                     /\ otf' = md_step(IF called THEN updated ELSE before)
                     /\ otf_files' =
                            IF last.gp_written
                            THEN [otf_files EXCEPT
                                     !.gp = complete_file(gp_of(updated))]
                            ELSE otf_files
    /\ UNCHANGED <<trainer_vars, pm>>

\* a step of the loop, the oracle returning or raising
OTFStep == OTFStepWhere(BOOLEAN)

\* a step of the loop when every call of the oracle returns
OTFStepReturning == OTFStepWhere({TRUE})

\* lines 312-313 and 554-558: checkpoint is called at the end of the step and
\* opens the file for writing, which empties it
OTFStepCheckpoint ==
    /\ pc = "otf_step_end"
    /\ pc' = "otf_checkpoint"
    /\ otf_files' = [otf_files EXCEPT !.checkpt = partial_file(as_dict(otf))]
    /\ otf_log' = [otf_log EXCEPT !.checkpoint_calls = @ + 1]
    /\ UNCHANGED <<otf, trainer_vars, pm>>

\* line 559: json.dump has written the whole dictionary and the file is closed
OTFCheckpointDump ==
    /\ pc \in {"otf_checkpoint", "otf_checkpoint_end"}
    /\ pc' = IF pc = "otf_checkpoint" THEN "otf_loop" ELSE "otf_done"
    /\ otf_files' = [otf_files EXCEPT !.checkpt = complete_file(as_dict(otf))]
    /\ UNCHANGED <<otf, otf_log, trainer_vars, pm>>

\* lines 315-319: the loop is left
OTFConclude ==
    /\ pc = "otf_loop"
    /\ ~(otf.curr_step < otf.number_of_steps)
    /\ IF otf.write_model >= 1
       THEN /\ pc' = "otf_checkpoint_end"
            /\ otf_files' = [gp |-> complete_file(gp_of(otf)),
                             checkpt |-> partial_file(as_dict(otf))]
            /\ otf_log' = [otf_log EXCEPT
                               !.checkpoint_calls = @ + 1,
                               !.last = [NoOTFStep EXCEPT !.at_end = TRUE,
                                                          !.gp_written = TRUE]]
       ELSE /\ pc' = "otf_done"
            /\ otf_log' = [otf_log EXCEPT
                               !.last = [NoOTFStep EXCEPT !.at_end = TRUE]]
            /\ UNCHANGED otf_files
    /\ UNCHANGED <<otf, trainer_vars, pm>>

\* the process is terminated from outside while run is executing
OTFTerminate ==
    /\ pc \in {"otf_loop", "otf_step_end", "otf_checkpoint", "otf_checkpoint_end"}
    /\ pc' = "otf_killed"
    /\ UNCHANGED <<otf, otf_files, otf_log, trainer_vars, pm>>

\* lines 561-566 and 530-552: a new object is made from the checkpoint file
\* and the GP file it names (json.loads and GaussianProcess.from_file raise
\* on a file that is not there or not complete)
OTFFromCheckpointAt(places) ==
    /\ pc \in places
    /\ otf_log.run < MaxRestarts
    /\ otf_files.checkpt.state = "complete"
    /\ otf_files.gp.state = "complete"
    /\ pc' = "otf_constructed"
    /\ otf' = from_dict(otf_files.checkpt.content, otf_files.gp.content)
    /\ otf_log' = [otf_log EXCEPT !.run = @ + 1,
                                  !.resumed = otf_files.checkpt.content]
    /\ UNCHANGED <<otf_files, trainer_vars, pm>>

\* from_checkpoint is called after a run has ended
OTFFromCheckpoint == OTFFromCheckpointAt({"otf_killed", "otf_failed", "otf_done"})

\* the process is terminated between two statements of the loop and the run
\* is resumed from the checkpoint
OTFResume == OTFFromCheckpointAt({"otf_loop", "otf_step_end"})

\* a GP without training points
NoGP == [gp_size |-> 0, gp_hyps |-> 0]

\* the defaults of OTF.__init__ (lines 99-135) on a run of MaxSteps steps
OTFDefaults ==
    [number_of_steps |-> MaxSteps, std_tolerance_factor |-> 1,
     max_atoms_added |-> 1, freeze_hyps |-> 10, min_steps_with_model |-> 0,
     write_model |-> 0, n_init_atoms |-> 1, gp |-> NoGP]

\* nothing has been run and no file has been written
NoOTFLog(o) ==
    [run |-> 0, start_step |-> 0, executed |-> << >>, last |-> NoOTFStep,
     oracle_calls |-> 0, quiet_steps |-> 0, quiet_before |-> 0,
     unsure_steps |-> 0, unsure_before |-> 0, updates |-> 0,
     trainings |-> 0, checkpoint_calls |-> 0, resumed |-> as_dict(o)]

NoOTFFiles(o) ==
    [gp |-> absent_file(gp_of(o)), checkpt |-> absent_file(as_dict(o))]

\* the state of the on-the-fly variables once OTF(args) is constructed
OTFConstructed(args) ==
    /\ otf = OTF_init(args)
    /\ otf_files = NoOTFFiles(otf)
    /\ otf_log = NoOTFLog(otf)

----------------------------------------------------------------------------
(* Initial states: the arguments a driver is called with *)

NoCaps == [s \in Species |-> Inf]
CapOn(s, n) == [NoCaps EXCEPT ![s] = n]

\* frames of at most MaxAtoms atoms; the first atom is of species A
Shapes ==
    {sh \in UNION {[1 .. n -> Species] : n \in 1 .. MaxAtoms} : sh[1] = "A"}

\* the defaults of TrajectoryTrainer.__init__ and of the drivers' arguments,
\* on a trajectory of n frames of composition sh
Defaults(sh, n) ==
    [species |-> sh, n_frames |-> n, validate_pct |-> 0,
     rel_std_tolerance |-> 1, abs_std_tolerance |-> 1,
     abs_force_tolerance |-> 1, max_force_error |-> Inf,
     min_atoms_per_train |-> 1, max_trains |-> Inf,
     max_atoms_from_frame |-> Inf, max_model_size |-> Inf,
     max_elts_per_frame |-> NoCaps, max_model_elts |-> NoCaps,
     max_atoms_per_frame |-> Inf,
     write_model_train_interval |-> 1, write_model_atom_interval |-> 100,
     post_write |-> TRUE, gp_is_mapped |-> FALSE, model_format |-> TRUE,
     print_training_plan |-> TRUE, trace_values |-> FALSE,
     skip |-> 1, pre_train_max_iter |-> 50, pre_train_on_skips |-> -1,
     seed_envs |-> [s \in Species |-> 0], n_seed_frames |-> 0,
     pre_train_env_per_species |-> NoCaps, train_env_per_species |-> NoCaps,
     train_checkpoint_interval |-> 1, atom_checkpoint_interval |-> 100,
     environments |-> [s \in Species |-> 0],
     post_training_iterations |-> 0, post_build_matrices |-> FALSE,
     std_vals |-> [s \in Species |-> StdVals],
     err_vals |-> [s \in Species |-> ErrVals]]

Trajectories == {Defaults(sh, n) : sh \in Shapes, n \in {1, MaxFrames}}

\* the caps on the size of the model
ModelCapConfigs ==
    {[d EXCEPT !.max_model_size = m, !.max_model_elts = e]
     : d \in Trajectories, m \in (1 .. MaxAtoms + 1) \cup {Inf},
       e \in {NoCaps, CapOn("A", 0), CapOn("A", 1)}}

\* the caps on what one frame may give
FrameCapConfigs ==
    {[d EXCEPT !.max_atoms_from_frame = a, !.max_elts_per_frame = pf,
               !.max_model_size = m]
     : d \in Trajectories, a \in {1, Inf}, pf \in {NoCaps, CapOn("A", 1)},
       m \in {MaxAtoms, Inf}}

\* the training schedule and the validation split
TrainConfigs ==
    {[d EXCEPT !.min_atoms_per_train = m, !.max_trains = t, !.validate_pct = v]
     : d \in Trajectories, m \in 1 .. MaxAtoms + 1, t \in {0, 1, Inf},
       v \in {0, 50, 100}}

\* the thresholds of the trust evaluation
TrustConfigs ==
    {[d EXCEPT !.rel_std_tolerance = r, !.abs_std_tolerance = a,
               !.abs_force_tolerance = t, !.max_force_error = x]
     : d \in Trajectories, r \in {0, 1}, a \in {0, 1}, t \in {0, 1},
       x \in {2, Inf}}

\* the kind of model and the output
OutputConfigs ==
    {[d EXCEPT !.gp_is_mapped = mapped, !.model_format = fmt,
               !.max_model_size = m]
     : d \in Trajectories, mapped \in BOOLEAN, fmt \in BOOLEAN,
       m \in {MaxAtoms, Inf}}

ActiveConfigs ==
    ModelCapConfigs \cup FrameCapConfigs \cup TrainConfigs \cup TrustConfigs
        \cup OutputConfigs

----------------------------------------------------------------------------
(* ParameterMasking: flare/mask_helper.py *)

\* the group types of __init__ other than "specie", line 31
GroupTypes == {"bond", "triplet", "cut3b", "mb"}

\* the kernels whose groups carry hyperparameters, in the order of line 300
KernelTypes == <<"bond", "triplet", "mb">>

\* the order in which list_parameters looks a name up, line 64
ParaTypes == <<"bond", "triplet", "mb", "cut3b">>

\* the object after ParameterMasking() without arguments, lines 26-45.
\* Hyperparameter values are named after the quantity they were given for,
\* so that two of them are never confused; generated and checked record
\* how generate_dict and check_instantiation ended, defines counts the
\* calls of define_group for a kernel or cutoff group and by tells how
\* the groups were given ("line", "list" or "constructor")
ParameterMasking ==
    [all_group_names |-> [gt \in GroupTypes \cup {"specie"} |-> << >>],
     groups |-> [gt \in GroupTypes |-> << >>],
     sigma |-> << >>,
     ls |-> << >>,
     cutoff |-> << >>,
     opt |-> [noise |-> TRUE],
     noise |-> "0.05",
     hyps_mask |-> << >>,
     generated |-> "not called",
     checked |-> "not called",
     defines |-> 0,
     by |-> "nothing"]

\* self.n[group_type]
n_of(p, gt) == Len(p.all_group_names[gt])

\* name in list
contains(list, x) == \E k \in 1 .. Len(list) : list[k] = x

\* list.index(x), counted from 0 as Python does
index(list, x) == (CHOOSE k \in 1 .. Len(list) : list[k] = x /\ \A j \in 1 .. k - 1 : list[j] # x) - 1

\* list.pop(k) for k counted from 0: the list without that element
popped(list, k) == [j \in 1 .. Len(list) - 1 |-> IF j <= k THEN list[j] ELSE list[j + 1]]

\* lines 119-125: a new name is given the next group id
named(p, gt, name) ==
    IF contains(p.all_group_names[gt], name) THEN p
    ELSE IF gt = "specie" THEN [p EXCEPT !.all_group_names[gt] = Append(@, name)]
    ELSE [p EXCEPT !.all_group_names[gt] = Append(@, name), !.groups[gt] = Append(@, << >>)]

\* define_group(group_type, name, element_list), lines 108-167, for
\* element lists made of '*' and names of species groups already defined
\* (any other name raises at line 149). The elements of a species group
\* only enter specie_mask, which is not modelled
RECURSIVE define_group(_, _, _, _)
RECURSIVE substituted(_, _, _, _, _)
define_group(p, gt, name, element_list) ==
    LET q == named(p, gt, name)
        groupid == index(q.all_group_names[gt], name)
        gid == [k \in 1 .. Len(element_list) |-> index(q.all_group_names["specie"], element_list[k])]
    IN  IF gt = "specie" THEN q
        ELSE IF ~contains(element_list, "*")
        THEN [q EXCEPT !.groups[gt][groupid + 1] = Append(@, gid)]
        ELSE substituted(q, gt, name, popped(element_list, index(element_list, "*")), 1)

\* lines 163-167: the loop over the species groups that replace one '*'
substituted(p, gt, name, one_star_less, k) ==
    IF k > n_of(p, "specie") THEN p
    ELSE substituted(define_group(p, gt, name, Append(one_star_less, p.all_group_names["specie"][k])), gt, name, one_star_less, k + 1)

\* line 177-178: a bool stands for the same flag for sig, ls and cutoff
opt_of_bool(b) == <<b, b, b>>

\* set_parameters(group_type, name, parameters, opt) with opt a list,
\* lines 169-189; the test of line 171 compares two different literals and
\* never holds
set_parameters(p, gt, name, parameters, opt) ==
    LET fullname == gt \o name
        with_hyps == [p EXCEPT !.sigma = (fullname :> parameters[1]) @@ @, !.ls = (fullname :> parameters[2]) @@ @, !.opt = ((fullname \o "sig") :> opt[1]) @@ ((fullname \o "ls") :> opt[2]) @@ @]
        q == IF gt # "cut3b" THEN with_hyps ELSE p
    IN  IF Len(parameters) > 2 THEN [q EXCEPT !.cutoff = (fullname :> parameters[3]) @@ @] ELSE q

\* list_parameters(para_list, constraint) from entry k on, lines 61-73;
\* para_list is the sequence of the <<name, value>> of the dict
RECURSIVE list_parameters(_, _, _, _)
list_parameters(p, para_list, constraint, k) ==
    IF k > Len(para_list) THEN p
    ELSE LET name == para_list[k][1]
             found == {j \in 1 .. Len(ParaTypes) : contains(p.all_group_names[ParaTypes[j]], name)}
             gt == ParaTypes[CHOOSE j \in found : \A j2 \in found : j <= j2]
             opt == IF name \in DOMAIN constraint THEN constraint[name] ELSE opt_of_bool(TRUE)
             q == IF found = {} THEN p ELSE set_parameters(p, gt, name, para_list[k][2], opt)
             r == IF name = "noise" THEN [q EXCEPT !.noise = para_list[k][2]] ELSE q
         IN  list_parameters(r, para_list, constraint, k + 1)

\* str(idg) of the f-string of line 98
str(idg) == <<"0", "1", "2", "3">>[idg + 1]

\* list_sweeping(group_type, element_list) for a list, from entry k on,
\* lines 75-107: a species is a group named after itself, the other
\* groups are named <group_type>_<position>
RECURSIVE list_sweeping(_, _, _, _)
list_sweeping(p, gt, element_list, k) ==
    IF k > Len(element_list) THEN p
    ELSE IF gt = "specie"
    THEN list_sweeping(define_group(p, gt, element_list[k], <<element_list[k]>>), gt, element_list, k + 1)
    ELSE list_sweeping(define_group(p, gt, gt \o "_" \o str(k - 1), element_list[k]), gt, element_list, k + 1)

\* the positions of the flat mask written for one member of a group:
\* lines 222-223 for a pair, lines 262-267 for a triplet
mask_positions(member, nspecie) ==
    LET g1 == member[1]
        g2 == member[2]
        g3 == member[3]
    IN  IF Len(member) = 2
        THEN <<g1 + g2 * nspecie, g2 + g1 * nspecie>>
        ELSE <<g1 + g2 * nspecie + g3 * nspecie ^ 2, g1 + g3 * nspecie + g2 * nspecie ^ 2, g2 + g1 * nspecie + g3 * nspecie ^ 2, g2 + g3 * nspecie + g1 * nspecie ^ 2, g3 + g1 * nspecie + g2 * nspecie ^ 2, g3 + g2 * nspecie + g1 * nspecie ^ 2>>

\* the mask after the group id idt is written at the positions ps
assigned(mask, ps, idt) == [x \in DOMAIN mask |-> IF contains(ps, x) THEN idt ELSE mask[x]]

\* the loops of lines 217-223 and 256-267 from member m of group idt on:
\* groups in the order of their ids, members in the order of definition
RECURSIVE mask_of(_, _, _, _, _)
mask_of(mask, members, nspecie, idt, m) ==
    IF idt >= Len(members) THEN mask
    ELSE IF m > Len(members[idt + 1]) THEN mask_of(mask, members, nspecie, idt + 1, 1)
    ELSE mask_of(assigned(mask, mask_positions(members[idt + 1][m], nspecie), idt), members, nspecie, idt, m + 1)

\* print_group(group_type) for a kernel or cutoff group type, lines
\* 209-280: what it leaves in self.mask, self.hyps_sig, self.hyps_ls,
\* self.hyps_opt and self.cutoff_list, or the exception it raises
print_group(p, gt) ==
    LET nspecie == n_of(p, "specie")
        ngroup == n_of(p, gt)
        aeg == p.all_group_names[gt]
        size == IF gt = "triplet" THEN 3 ELSE 2
        ones == [x \in 0 .. nspecie ^ size - 1 |-> ngroup - 1]
        no_hyps == gt # "cut3b" /\ \E idt \in 1 .. ngroup : (gt \o aeg[idt]) \notin DOMAIN p.sigma
        diff_cut == gt # "triplet" /\ \E idt \in 1 .. ngroup : (gt \o aeg[idt]) \in DOMAIN p.cutoff
        no_cut == \E idt \in 1 .. ngroup : (gt \o aeg[idt]) \notin DOMAIN p.cutoff
        raised == ngroup > 0 /\ (no_hyps \/ (diff_cut /\ no_cut))
        listed == ngroup > 0 /\ ~raised /\ gt # "cut3b"
    IN  [raised |-> IF raised THEN "KeyError" ELSE "none",
         mask |-> IF ngroup = 0 THEN << >> ELSE mask_of(ones, p.groups[gt], nspecie, 0, 1),
         hyps_sig |-> IF listed THEN [idt \in 1 .. ngroup |-> p.sigma[gt \o aeg[idt]]] ELSE << >>,
         hyps_ls |-> IF listed THEN [idt \in 1 .. ngroup |-> p.ls[gt \o aeg[idt]]] ELSE << >>,
         hyps_opt |-> IF listed THEN [j \in 1 .. 2 * ngroup |-> IF j % 2 = 1 THEN p.opt[gt \o aeg[(j + 1) \div 2] \o "sig"] ELSE p.opt[gt \o aeg[j \div 2] \o "ls"]] ELSE << >>,
         cutoff_list |-> IF ngroup > 0 /\ ~raised /\ diff_cut THEN [idt \in 1 .. ngroup |-> p.cutoff[gt \o aeg[idt]]] ELSE << >>]

\* an entry of the dictionary that is only written under a condition
entry(written_if, key, value) == IF written_if THEN key :> value ELSE << >>

\* generate_dict(), lines 284-334: self.hyps_mask and how the call ended.
\* specie_mask is left out (element_to_Z is outside this file); positions
\* in 'map' are counted from 0 as in the code
generate_dict(p) ==
    LET group == [gt \in GroupTypes |-> print_group(p, gt)]
        has(gt) == n_of(p, gt) >= 1
        hyps_of(gt) == IF has(gt) THEN group[gt].hyps_sig \o group[gt].hyps_ls ELSE << >>
        opt_of(gt) == IF has(gt) THEN group[gt].hyps_opt ELSE << >>
        opt == opt_of("bond") \o opt_of("triplet") \o opt_of("mb") \o <<p.opt.noise>>
        original == hyps_of("bond") \o hyps_of("triplet") \o hyps_of("mb") \o <<p.noise>>
        nhyps == Len(original)
        mapping == SelectSeq([k \in 1 .. nhyps |-> k - 1], LAMBDA k : opt[k + 1])
        all_opt == \A k \in 1 .. Len(opt) : opt[k]
        newhyps == IF all_opt THEN original ELSE [k \in 1 .. Len(mapping) |-> original[mapping[k] + 1]]
        kernel(gt) == IF has(gt) THEN (("n" \o gt) :> n_of(p, gt)) @@ ((gt \o "_mask") :> group[gt].mask) ELSE << >>
        cut3b == IF Len(group["cut3b"].cutoff_list) > 0 THEN [cutoff_3b |-> group["cut3b"].cutoff_list, ncut3b |-> n_of(p, "cut3b"), cut3b_mask |-> group["cut3b"].mask] ELSE << >>
    IN  IF n_of(p, "specie") < 2 THEN [p EXCEPT !.generated = "None"]
        ELSE IF \E gt \in GroupTypes : group[gt].raised # "none" THEN [p EXCEPT !.generated = "KeyError"]
        ELSE IF \A k \in 1 .. Len(KernelTypes) : ~has(KernelTypes[k]) THEN [p EXCEPT !.generated = "ValueError"]
        ELSE [p EXCEPT !.generated = "dict", !.hyps_mask = [nspecie |-> n_of(p, "specie"), original |-> original, train_noise |-> p.opt.noise, hyps |-> newhyps] @@ kernel("bond") @@ kernel("triplet") @@ kernel("mb") @@ entry(~all_opt, "map", mapping) @@ entry(Len(group["bond"].cutoff_list) > 0, "cutoff_2b", group["bond"].cutoff_list) @@ cut3b @@ entry(Len(group["mb"].cutoff_list) > 0, "cutoff_mb", group["mb"].cutoff_list)]

\* numpy.max of a mask
npmax(mask) == CHOOSE v \in {mask[x] : x \in DOMAIN mask} : \A x \in DOMAIN mask : mask[x] <= v

\* the assertions of check_instantiation on the mask of pairs of one kernel,
\* lines 357-370 and 408-421
pair_mask_checked(hm, nkey, mkey) ==
    nkey \in DOMAIN hm =>
        /\ hm[nkey] > 0
        /\ npmax(hm[mkey]) < hm[nkey]
        /\ Cardinality(DOMAIN hm[mkey]) = hm.nspecie ^ 2
        /\ \A t \in 0 .. hm.nspecie - 1 : \A t_2 \in t .. hm.nspecie - 1 :
             hm[mkey][t * hm.nspecie + t_2] = hm[mkey][t_2 * hm.nspecie + t]

\* the assertions on triplet_mask, lines 374-404
triplet_mask_checked(hm) ==
    LET nspecie == hm.nspecie
        tmask == hm.triplet_mask
        at(a, b, c) == tmask[a * nspecie * nspecie + b * nspecie + c]
    IN  "ntriplet" \in DOMAIN hm =>
            /\ hm.ntriplet > 0
            /\ npmax(tmask) < hm.ntriplet
            /\ Cardinality(DOMAIN tmask) = nspecie ^ 3
            /\ \A t3b \in 0 .. nspecie - 1 : \A t3b_2 \in t3b .. nspecie - 1 : \A t3b_3 \in t3b_2 .. nspecie - 1 :
                 /\ at(t3b, t3b_2, t3b_3) = at(t3b, t3b_3, t3b_2)
                 /\ at(t3b, t3b_2, t3b_3) = at(t3b_2, t3b, t3b_3)
                 /\ at(t3b, t3b_2, t3b_3) = at(t3b_2, t3b_3, t3b)
                 /\ at(t3b, t3b_2, t3b_3) = at(t3b_3, t3b, t3b_2)
                 /\ at(t3b, t3b_2, t3b_3) = at(t3b_3, t3b_2, t3b)

\* the assertions on 'map' and 'train_noise', lines 426-437
map_checked(hm) ==
    IF "map" \in DOMAIN hm
    THEN contains(hm.map, Len(hm.original) - 1) \/ hm.train_noise = FALSE
    ELSE hm.train_noise = TRUE

\* check_instantiation(hyps_mask) for a dictionary of generate_dict, lines
\* 336-462: how the call ends. Line 446 reads nc3b, a name that is never
\* bound, whenever the dictionary has 'cutoff_3b'
check_instantiation(hm) ==
    IF ~pair_mask_checked(hm, "nbond", "bond_mask") THEN "AssertionError"
    ELSE IF ~triplet_mask_checked(hm) THEN "AssertionError"
    ELSE IF ~pair_mask_checked(hm, "nmb", "mb_mask") THEN "AssertionError"
    ELSE IF ~map_checked(hm) THEN "AssertionError"
    ELSE IF "cutoff_2b" \in DOMAIN hm /\ Len(hm.cutoff_2b) # (IF "nbond" \in DOMAIN hm THEN hm.nbond ELSE 0) THEN "AssertionError"
    ELSE IF "cutoff_3b" \in DOMAIN hm THEN "NameError"
    ELSE IF "cutoff_mb" \in DOMAIN hm /\ Len(hm.cutoff_mb) # (IF "nmb" \in DOMAIN hm THEN hm.nmb ELSE 1) THEN "AssertionError"
    ELSE "passed"

----------------------------------------------------------------------------
(* The states the drivers start from *)

\* the training set the driver starts from
InitialModels == {g \in [Species -> 0 .. MaxInitial] : g["B"] <= g["A"]}

\* the counters and the logs when a driver is called
InitCounters ==
    /\ frames = [k \in 1 .. cfg.n_frames |-> k - 1]
    /\ seed_frames = [k \in 1 .. cfg.n_seed_frames |-> Max(MaxFrames, cfg.n_frames)]
    /\ gp_added = [p \in FrameIds \X Atoms |-> 0]
    /\ i = 0
    /\ train_frame = 0
    /\ max_atoms_from_frame = cfg.max_atoms_from_frame
    /\ train_model_atom_counter = 0
    /\ cur_atoms_added_train = 0
    /\ cur_atoms_added_write = 0
    /\ cur_trains_done_write = 0
    /\ train_count = 0
    /\ refresh_count = 0
    /\ training_plan = << >>
    /\ compared = << >>
    /\ written = [n \in FileNames |-> 0]
    /\ atom_count = 0
    /\ admitted = << >>
    /\ saturation_logs = 0
    /\ step_log = NoStep

\* the state of a trainer whose GP has not been trained by train_gp
InitTrainer ==
    /\ InitCounters
    /\ gp_train = untrained(MaxIter)
    /\ pm = ParameterMasking

\* the trajectory drivers have no OTF object: the variables of the
\* on-the-fly driver hold an object that is never run
InitState ==
    /\ InitTrainer
    /\ OTFConstructed(OTFDefaults)

InitCommon ==
    /\ InitState
    /\ write_model_atom_counter = 0
    /\ train_counter = 0

Init ==
    /\ gp_envs \in InitialModels
    /\ cfg \in ActiveConfigs
    /\ pc = "active_start"
    /\ InitCommon

Next == ActiveStart \/ ActiveStep \/ ActiveConclude

\* run_active_learning
Spec == Init /\ [][Next]_vars

\* the seeds of pre_run
SeedConfigs ==
    {[d EXCEPT !.pre_train_on_skips = k, !.seed_envs = e, !.n_seed_frames = n,
               !.pre_train_env_per_species = c, !.max_atoms_from_frame = a,
               !.pre_train_max_iter = it]
     : d \in Trajectories, k \in {-1, 2}, n \in {0, 1},
       e \in {[s \in Species |-> 0], [s \in Species |-> IF s = "A" THEN 1 ELSE 0]},
       c \in {NoCaps, CapOn("A", 1)}, a \in {1, Inf}, it \in {0, 50}}

\* the caps of the loop of run, the thresholds and the kind of model
RunLoopConfigs ==
    {[d EXCEPT !.max_atoms_from_frame = a, !.train_env_per_species = c,
               !.max_force_error = x, !.rel_std_tolerance = r, !.skip = k,
               !.gp_is_mapped = mapped]
     : d \in Trajectories, a \in {1, Inf}, c \in {NoCaps, CapOn("A", 1)},
       x \in {2, Inf}, r \in {0, 1}, k \in {1, 2}, mapped \in BOOLEAN}

\* the training schedule of run
RunTrainConfigs ==
    {[d EXCEPT !.min_atoms_per_train = m, !.max_trains = t, !.validate_pct = v,
               !.model_format = fmt]
     : d \in Trajectories, m \in 1 .. MaxAtoms + 1, t \in {0, 1, Inf},
       v \in {0, 50}, fmt \in BOOLEAN}

RunConfigs == SeedConfigs \cup RunLoopConfigs \cup RunTrainConfigs

InitRun ==
    /\ gp_envs \in InitialModels
    /\ cfg \in RunConfigs
    /\ pc = "run_start"
    /\ InitCommon

NextRun ==
    RunStart \/ PreRunSeedFrame \/ PreRunTrain \/ RunSetup \/ RunStep
        \/ RunConclude

\* pre_run and run
SpecRun == InitRun /\ [][NextRun]_vars

\* the arguments of run_passive_learning
PassiveConfigs ==
    {[d EXCEPT !.max_model_size = m, !.max_model_elts = e,
               !.max_atoms_per_frame = a, !.max_elts_per_frame = pf,
               !.environments = env, !.post_training_iterations = it,
               !.gp_is_mapped = mapped]
     : d \in Trajectories, m \in (0 .. MaxAtoms + 1) \cup {Inf},
       e \in {NoCaps, CapOn("A", 0), CapOn("A", 1), CapOn("A", 2)},
       a \in {1, Inf}, pf \in {NoCaps, CapOn("A", 1)},
       env \in {[s \in Species |-> 0], [s \in Species |-> IF s = "A" THEN 1 ELSE 0]},
       it \in {0, 1}, mapped \in BOOLEAN}

InitPassive ==
    /\ gp_envs \in InitialModels
    /\ cfg \in PassiveConfigs
    /\ pc = "passive_start"
    /\ InitCommon

NextPassive == PassiveStart \/ PassiveFrame \/ PassiveFinish

\* run_passive_learning
SpecPassive == InitPassive /\ [][NextPassive]_vars

\* the saturation scenario: global cap 5, per-species cap {A: 10}, 3 frames
\* in each of which the 4 atoms of species A (and no other atom) are flagged
SaturationConfigs ==
    {[Defaults(sh, 3) EXCEPT
         !.max_model_size = 5, !.max_model_elts = CapOn("A", 10),
         !.std_vals = [s \in Species |-> {1}],
         !.err_vals = [s \in Species |-> IF s = "A" THEN {2, 3} ELSE {0}],
         !.min_atoms_per_train = m, !.max_trains = t, !.model_format = fmt]
     : sh \in {<<"A", "A", "A", "A">>, <<"A", "A", "A", "A", "B">>},
       m \in {1, 4, 200}, t \in {0, 1, Inf}, fmt \in BOOLEAN}

InitSaturation ==
    /\ gp_envs \in {g \in [Species -> 0 .. 1] : g["A"] + g["B"] <= 1}
    /\ cfg \in SaturationConfigs
    /\ pc = "active_start"
    /\ InitCommon

\* run_active_learning on the saturation scenario
SpecSaturation == InitSaturation /\ [][Next]_vars

\* the retrain-timing scenario: 10 frames of one atom of species A and one of
\* species B, the error of the A atom above abs_force_tolerance in every
\* frame, the B atom never flagged, min_atoms_per_train = 3
TimingConfigs ==
    {[Defaults(<<"A", "B">>, 10) EXCEPT
         !.std_vals = [s \in Species |-> {0, 1}],
         !.err_vals = [s \in Species |-> IF s = "A" THEN {2} ELSE {0, 1}],
         !.min_atoms_per_train = 3, !.model_format = fmt,
         !.write_model_train_interval = w, !.train_checkpoint_interval = w]
     : fmt \in BOOLEAN, w \in {0, 1}}

InitTiming ==
    /\ gp_envs \in InitialModels
    /\ cfg \in TimingConfigs
    /\ pc \in {"active_start", "run_start"}
    /\ InitCommon

NextTiming == Next \/ NextRun

\* run_active_learning and run on the retrain-timing scenario
SpecTiming == InitTiming /\ [][NextTiming]_vars

InitTimingActive ==
    /\ gp_envs \in InitialModels
    /\ cfg \in TimingConfigs
    /\ pc = "active_start"
    /\ InitCommon

\* run_active_learning on the retrain-timing scenario
SpecTimingActive == InitTimingActive /\ [][Next]_vars

\* the arguments write_model_decision may be called with
WriteDecisionConfigs ==
    {[Defaults(<<"A">>, 1) EXCEPT
         !.write_model_train_interval = t, !.write_model_atom_interval = a,
         !.model_format = fmt]
     : t \in 0 .. MaxAtoms, a \in 0 .. MaxAtoms, fmt \in BOOLEAN}

InitWriteDecision ==
    /\ gp_envs \in InitialModels
    /\ cfg \in WriteDecisionConfigs
    /\ pc = "write_model_decision"
    /\ InitState
    /\ write_model_atom_counter \in 0 .. MaxAtoms
    /\ train_counter \in 0 .. MaxAtoms

NextWriteDecision == WriteModelDecision

\* one call of write_model_decision
SpecWriteDecision == InitWriteDecision /\ [][NextWriteDecision]_vars

InitDrivers == Init \/ InitRun

NextDrivers == Next \/ NextRun

\* either trajectory driver: run_active_learning, or run with its pre_run
SpecDrivers == InitDrivers /\ [][NextDrivers]_vars

\* the validate_ratio run_active_learning may be given, in and out of [0, 1]
SplitConfigs ==
    {[d EXCEPT !.validate_pct = v, !.min_atoms_per_train = m]
     : d \in Trajectories, v \in {-50, 0, 50, 100, 150}, m \in {1, MaxAtoms}}

InitSplit ==
    /\ gp_envs \in InitialModels
    /\ cfg \in SplitConfigs
    /\ pc = "active_start"
    /\ InitCommon

\* run_active_learning with any validate_ratio
SpecSplit == InitSplit /\ [][Next]_vars

\* the thresholds of the trust evaluation, 0 included, with predictions that
\* are exact (every force error 0), nowhere exact, or free, and uncertainties
\* that are all the largest or free
TrustZeroConfigs ==
    {[d EXCEPT !.rel_std_tolerance = r, !.abs_std_tolerance = a,
               !.abs_force_tolerance = t,
               !.err_vals = [s \in Species |-> ev],
               !.std_vals = [s \in Species |-> sv]]
     : d \in Trajectories, r \in {0, 1}, a \in {0, 1}, t \in {0, 1},
       ev \in {{0}, ErrVals \ {0}, ErrVals}, sv \in {{MaxStd}, StdVals}}

InitTrust ==
    /\ gp_envs \in InitialModels
    /\ cfg \in TrustZeroConfigs
    /\ pc = "active_start"
    /\ InitCommon

\* run_active_learning with thresholds that may be 0
SpecTrust == InitTrust /\ [][Next]_vars

\* configurations that trace the values of the records of the training plan
PlanConfigs ==
    {[Defaults(sh, MaxFrames) EXCEPT
         !.trace_values = TRUE, !.validate_pct = v, !.gp_is_mapped = mapped,
         !.max_atoms_from_frame = a,
         !.std_vals = [s \in Species |-> {0, MaxStd}],
         !.err_vals = [s \in Species |-> IF s = "A" THEN {0, MaxErr} ELSE {0}]]
     : sh \in {<<"A", "B">>, <<"A", "A">>}, v \in {0, 50},
       mapped \in BOOLEAN, a \in {1, Inf}}

InitPlan ==
    /\ gp_envs \in InitialModels
    /\ cfg \in PlanConfigs
    /\ pc \in {"active_start", "run_start"}
    /\ InitCommon

\* either trajectory driver, the values of the records traced
SpecPlan == InitPlan /\ [][NextDrivers]_vars

\* a mapped GP given to either driver
MappedConfigs ==
    {[Defaults(sh, MaxFrames) EXCEPT
         !.gp_is_mapped = TRUE, !.model_format = fmt, !.validate_pct = v,
         !.train_checkpoint_interval = w, !.write_model_train_interval = w,
         !.atom_checkpoint_interval = a, !.write_model_atom_interval = a]
     : sh \in Shapes, fmt \in BOOLEAN, v \in {0, 50}, w \in {0, 1},
       a \in {0, 1, 100}}

\* the mapped GP was built from a model that has training points
InitMapped ==
    /\ gp_envs \in {g \in InitialModels : SumOver(Species, g) > 0}
    /\ cfg \in MappedConfigs
    /\ pc \in {"active_start", "run_start"}
    /\ InitCommon

\* run skips pre_run for a mapped GP
NextMapped ==
    ActiveStart \/ ActiveStep \/ ActiveConclude \/ RunStart \/ RunSetup
        \/ RunStep \/ RunConclude

\* either trajectory driver with a mapped GP
SpecMapped == InitMapped /\ [][NextMapped]_vars

\* the arguments of OTF: the length of the run and the tolerance
OTFStepConfigs ==
    {[OTFDefaults EXCEPT !.number_of_steps = n, !.std_tolerance_factor = t,
                         !.write_model = w, !.n_init_atoms = k,
                         !.gp = [gp_size |-> g, gp_hyps |-> 0]]
     : n \in 0 .. MaxSteps, t \in {0, 1, 2}, w \in {0, 3}, k \in {1, 2},
       g \in {0, 1}}

\* the arguments of OTF: the schedules
OTFScheduleConfigs ==
    {[OTFDefaults EXCEPT !.min_steps_with_model = m, !.freeze_hyps = f,
                         !.write_model = w, !.max_atoms_added = a,
                         !.gp = [gp_size |-> g, gp_hyps |-> 0]]
     : m \in 0 .. 2, f \in {0, 1, 2, 10}, w \in 0 .. 3, a \in {1, 2},
       g \in {0, 1}}

OTFConfigs == OTFStepConfigs \cup OTFScheduleConfigs

InitOTF ==
    /\ cfg = Defaults(<<"A">>, 1)
    /\ gp_envs = [s \in Species |-> 0]
    /\ InitTrainer
    /\ write_model_atom_counter = 0
    /\ train_counter = 0
    /\ pc = "otf_constructed"
    /\ \E args \in OTFConfigs : OTFConstructed(args)

NextOTF ==
    OTFRun \/ OTFStep \/ OTFStepCheckpoint \/ OTFCheckpointDump
        \/ OTFConclude \/ OTFTerminate \/ OTFFromCheckpoint

\* OTF.run, with failures of the oracle, terminations of the process and
\* restarts from the checkpoint
SpecOTF == InitOTF /\ [][NextOTF]_vars

\* the statements of run when every call returns
OTFRunning ==
    OTFRun \/ OTFStepReturning \/ OTFStepCheckpoint \/ OTFCheckpointDump
        \/ OTFConclude

NextOTFReturning == OTFRunning \/ OTFResume

\* OTF.run when every call returns: run is one sequential loop, so it goes
\* on as long as it has a statement to execute
SpecOTFReturning ==
    InitOTF /\ [][NextOTFReturning]_vars /\ WF_vars(OTFRunning)

InitAllDrivers ==
    \/ /\ gp_envs \in InitialModels
       /\ cfg \in OutputConfigs
       /\ pc \in {"active_start", "run_start"}
       /\ InitCommon
    \/ InitPassive
    \/ InitOTF

NextAllDrivers == NextDrivers \/ NextPassive \/ OTFRunning \/ OTFStep

\* every driver: run_active_learning, run with its pre_run,
\* run_passive_learning and OTF.run
SpecAllDrivers == InitAllDrivers /\ [][NextAllDrivers]_vars

\* train_gp(max_iter) called by the user, lines 977-1021
TrainGP ==
    /\ pc = "train_gp"
    /\ Len(gp_train.log) < MaxTrainCalls
    /\ \E max_iter \in {None} \cup 0 .. MaxIter :
         /\ gp_train' = gp_after_train_gp(gp_train, max_iter)
         /\ train_count' = train_gp(train_count)
    /\ UNCHANGED <<otf_vars, pm, cfg, pc, frames, seed_frames, gp_envs, gp_added,
                   i, train_frame, max_atoms_from_frame,
                   train_model_atom_counter, write_model_atom_counter,
                   train_counter, cur_atoms_added_train, cur_atoms_added_write,
                   cur_trains_done_write, refresh_count, training_plan,
                   compared, written, atom_count, step_log, admitted,
                   saturation_logs>>

\* a trainer whose GP has any maxiter, mapped or not
InitTrainGP ==
    /\ cfg \in {[Defaults(<<"A">>, 1) EXCEPT !.gp_is_mapped = mapped]
                : mapped \in BOOLEAN}
    /\ gp_envs = [s \in Species |-> 1]
    /\ InitCounters
    /\ gp_train \in {untrained(m) : m \in 1 .. MaxIter}
    /\ pm = ParameterMasking
    /\ write_model_atom_counter = 0
    /\ train_counter = 0
    /\ pc = "train_gp"
    /\ OTFConstructed(OTFDefaults)

\* train_gp called up to MaxTrainCalls times with any max_iter
SpecTrainGP == InitTrainGP /\ [][TrainGP]_vars

----------------------------------------------------------------------------
(* ParameterMasking used by the tests of tests/test_mask_helper.py *)

\* the species groups, defined in this order
SpecieNames == <<"Cu", "C", "H">>

\* names of the groups defined line by line
GroupNames == {"a", "b"}

\* the members a group can be given: '*' and the species groups defined
ElementLists(p, gt) ==
    [1 .. (IF gt = "triplet" THEN 3 ELSE 2) -> {"*"} \cup {SpecieNames[k] : k \in 1 .. n_of(p, "specie")}]

\* the flags of a constraint: sig and ls, the third one is never read
OptChoices == {<<sig, ls, TRUE>> : sig, ls \in BOOLEAN}

\* the parameters given to a group: sig and ls, and a cutoff if wanted
parameters_for(gt, name, with_cutoff) ==
    <<gt \o name \o ".sig", gt \o name \o ".ls">> \o (IF with_cutoff THEN <<gt \o name \o ".cutoff">> ELSE << >>)

\* the names of the groups of the types of a sequence, type by type
RECURSIVE names_with_types(_, _, _)
names_with_types(p, types, k) ==
    IF k > Len(types) THEN << >>
    ELSE [j \in 1 .. n_of(p, types[k]) |-> <<types[k], p.all_group_names[types[k]][j]>>] \o names_with_types(p, types, k + 1)

\* a para dictionary that gives every group its parameters, with a cutoff
\* for the group types of with_cutoff
para_for(p, with_cutoff) ==
    LET known == names_with_types(p, ParaTypes, 1)
    IN  [k \in 1 .. Len(known) |-> <<known[k][2], parameters_for(known[k][1], known[k][2], known[k][1] \in with_cutoff)>>]

\* the constraint dictionaries that freeze hyperparameters of at most
\* MaxFrozen kernel groups
Constraints(p) ==
    LET known == names_with_types(p, KernelTypes, 1)
        names == {known[k][2] : k \in 1 .. Len(known)}
    IN  UNION {[S -> OptChoices \ {opt_of_bool(TRUE)}] : S \in {T \in SUBSET names : Cardinality(T) <= MaxFrozen}}

\* no group was given parameters yet: the tests define the groups first
no_parameters(p) == DOMAIN p.sigma = {} /\ DOMAIN p.cutoff = {}

\* define_group('specie', name, [name]) for the next species, line 108
DefineSpecie ==
    /\ pc = "masking"
    /\ pm.generated = "not called"
    /\ pm.defines = 0
    /\ pm.by \in {"nothing", "line"}
    /\ n_of(pm, "specie") < MaxLineSpecie
    /\ LET name == SpecieNames[n_of(pm, "specie") + 1]
       IN  pm' = [define_group(pm, "specie", name, <<name>>) EXCEPT !.by = "line"]
    /\ UNCHANGED <<otf_vars, trainer_vars, pc>>

\* define_group(group_type, name, element_list) of a test, line 108
DefineGroup ==
    /\ pc = "masking"
    /\ pm.generated = "not called"
    /\ pm.by = "line"
    /\ pm.defines < MaxDefine
    /\ no_parameters(pm)
    /\ \E gt \in GroupTypes, name \in GroupNames :
         \E element_list \in ElementLists(pm, gt) :
            pm' = [define_group(pm, gt, name, element_list) EXCEPT !.defines = @ + 1]
    /\ UNCHANGED <<otf_vars, trainer_vars, pc>>

\* set_parameters(group_type, name, parameters) of a test, line 169, with
\* the default opt=True
SetParameters ==
    /\ pc = "masking"
    /\ pm.generated = "not called"
    /\ pm.by = "line"
    /\ \E gt \in GroupTypes, with_cutoff \in BOOLEAN :
         \E k \in 1 .. n_of(pm, gt) :
            pm' = set_parameters(pm, gt, pm.all_group_names[gt][k], parameters_for(gt, pm.all_group_names[gt][k], with_cutoff), opt_of_bool(TRUE))
    /\ UNCHANGED <<otf_vars, trainer_vars, pc>>

\* the object after list_sweeping for every argument of __init__, lines
\* 47-56
swept(p, specie, bond, triplet, cut3b, mb) ==
    list_sweeping(list_sweeping(list_sweeping(list_sweeping(list_sweeping(p, "specie", specie, 1), "bond", bond, 1), "triplet", triplet, 1), "cut3b", cut3b, 1), "mb", mb, 1)

\* the lists of groups given to list_sweeping and to the constructor
BondLists == {<< >>, <<<<"*", "*">>>>, <<<<"*", "*">>, <<"Cu", "Cu">>>>, <<<<"Cu", "C">>, <<"*", "C">>>>}

TripletLists == {<< >>, <<<<"*", "*", "*">>>>, <<<<"*", "*", "*">>, <<"Cu", "Cu", "Cu">>>>, <<<<"Cu", "*", "C">>, <<"C", "Cu", "Cu">>>>}

CutoffLists == {<< >>, <<<<"*", "*">>>>}

\* ParameterMasking(specie=..., bond=..., triplet=..., cut3b=..., mb=...,
\* para=..., constraint=...), lines 23-59: the groups, their parameters
\* and generate_dict in one call
Construct ==
    /\ pc = "masking"
    /\ pm = ParameterMasking
    /\ \E bond \in BondLists, triplet \in TripletLists, cut3b \in CutoffLists, mb \in CutoffLists, with_cutoff \in SUBSET {"mb", "cut3b"} :
         LET groups == swept(pm, SpecieNames, bond, triplet, cut3b, mb)
         IN  \E constraint \in Constraints(groups) :
                pm' = generate_dict([list_parameters(groups, para_for(groups, with_cutoff), constraint, 1) EXCEPT !.defines = Len(bond) + Len(triplet) + Len(cut3b) + Len(mb), !.by = "constructor"])
    /\ UNCHANGED <<otf_vars, trainer_vars, pc>>

\* list_sweeping(group_type, element_list) of a test, line 75
ListSweeping ==
    /\ pc = "masking"
    /\ pm.generated = "not called"
    /\ \/ /\ n_of(pm, "specie") = 0
          /\ \E ns \in 1 .. MaxSpecie : pm' = [list_sweeping(pm, "specie", SubSeq(SpecieNames, 1, ns), 1) EXCEPT !.by = "list"]
       \/ /\ pm.by = "list"
          /\ \E gt \in GroupTypes :
               \E element_list \in (IF gt = "triplet" THEN TripletLists ELSE IF gt = "cut3b" THEN CutoffLists ELSE BondLists) :
                  /\ \A k \in 1 .. Len(element_list) : \A j \in 1 .. Len(element_list[k]) : element_list[k][j] = "*" \/ contains(pm.all_group_names["specie"], element_list[k][j])
                  /\ pm.defines + Len(element_list) <= MaxDefine
                  /\ Len(element_list) > 0
                  /\ pm' = [list_sweeping(pm, gt, element_list, 1) EXCEPT !.defines = @ + Len(element_list)]
    /\ UNCHANGED <<otf_vars, trainer_vars, pc>>

\* list_parameters(para_list, constraint) of a test, line 61
ListParameters ==
    /\ pc = "masking"
    /\ pm.generated = "not called"
    /\ pm.by = "list"
    /\ no_parameters(pm)
    /\ \E with_cutoff \in SUBSET {"bond", "mb", "cut3b"}, constraint \in Constraints(pm) :
         pm' = list_parameters(pm, para_for(pm, with_cutoff), constraint, 1)
    /\ UNCHANGED <<otf_vars, trainer_vars, pc>>

\* generate_dict() of a test, line 284
GenerateDict ==
    /\ pc = "masking"
    /\ pm.generated = "not called"
    /\ pm' = generate_dict(pm)
    /\ UNCHANGED <<otf_vars, trainer_vars, pc>>

\* ParameterMasking.check_instantiation(hm) of a test, line 336
CheckInstantiation ==
    /\ pc = "masking"
    /\ pm.generated = "dict"
    /\ pm.checked = "not called"
    /\ pm' = [pm EXCEPT !.checked = check_instantiation(pm.hyps_mask)]
    /\ UNCHANGED <<otf_vars, trainer_vars, pc>>

InitMask ==
    /\ cfg = Defaults(<<"A">>, 1)
    /\ gp_envs = [s \in Species |-> 0]
    /\ InitCounters
    /\ gp_train = untrained(MaxIter)
    /\ pm = ParameterMasking
    /\ write_model_atom_counter = 0
    /\ train_counter = 0
    /\ pc = "masking"
    /\ OTFConstructed(OTFDefaults)

NextMask ==
    DefineSpecie \/ DefineGroup \/ SetParameters \/ ListSweeping
        \/ ListParameters \/ Construct \/ GenerateDict \/ CheckInstantiation

\* a ParameterMasking built line by line, by list or by its constructor,
\* then generate_dict and check_instantiation
SpecMask == InitMask /\ [][NextMask]_vars

----------------------------------------------------------------------------
(* Properties of the drivers *)

\* the training points present when the driver was called
initial_len == SumOver(Species, gp_envs)

\* C1: in run_active_learning the number of training points never exceeds
\* max_model_size if it did not exceed it when the run started (the seeding
\* of an empty model included)
C1_SizeWithinCap ==
    initial_len <= cfg.max_model_size
        => gp_len(gp_envs, gp_added) <= cfg.max_model_size

\* C2: a species with a configured model cap never has more environments
\* in the training set than that cap, if it had not at the start (the
\* seeding of an empty model included)
C2_SpeciesWithinCap ==
    \A s \in Species :
        (cfg.max_model_elts[s] # Inf /\ gp_envs[s] <= cfg.max_model_elts[s])
            => envs_by_species(gp_envs, gp_added)[s] <= cfg.max_model_elts[s]

\* C3: the number of full retrains of the loop never exceeds max_trains
C3_TrainsWithinBudget == train_counter <= cfg.max_trains

\* C4: no atom whose force error exceeds max_force_error is added to the
\* training set at that frame
C4_NoRejectedAtomAdded == step_log.added_rejected = {}

\* C5: no frame gives the training set more than max_atoms_from_frame atoms
C5_FrameWithinBudget ==
    \A f \in FrameIds : added_from(gp_added, f) <= cfg.max_atoms_from_frame

\* C6: in the saturation scenario the numbers of atoms admitted at the three
\* frames are 4, 1, 0: the second frame is filled up to the cap, not refused
\* as a whole
C6_FilledUpToCap == pc = "done" => admitted = <<4, 1, 0>>

\* C7 as stated: the saturation checkpoint is written exactly once in a run
\* in which an admission was refused because of max_model_size, at the
\* first such frame, and never again
C7_SaturatedWrittenOnce ==
    written["saturated"] = IF saturation_logs >= 1 THEN 1 ELSE 0

\* C7 as amended: with a model format set, the saturation checkpoint is
\* written exactly once in a run in which an admission was refused, at the
\* first such frame, and never again; without a model format it is never
\* written
C7_SaturatedWrittenOnceIfFormat ==
    written["saturated"] =
        IF saturation_logs >= 1 /\ cfg.model_format THEN 1 ELSE 0

C7_Witness ==
    /\ pc = "active_loop"
    /\ cfg.model_format
    /\ written["saturated"] = 1
    /\ step_log.step = 2
    /\ ~step_log.refused
    /\ admitted = <<MaxAtoms, 0, 0>>

\* C8: once the saturation branch was taken, the per-frame budget is 0 and
\* stays 0, no atom is added to the training set by any later step, every
\* remaining frame is still compared, and the run reaches its conclusion
\* without aborting
C8_PredictionOnlyAfterSaturation ==
    [][saturation_logs >= 1 =>
          /\ max_atoms_from_frame = 0
          /\ max_atoms_from_frame' = 0
          /\ gp_added' = gp_added
          /\ pc' # "aborted"
          /\ (i < Len(frames) => compared' = Append(compared, i))
          /\ (pc' = "done" => Len(compared') = cfg.n_frames)]_vars

C8_Witness ==
    /\ pc = "done"
    /\ saturation_logs >= 1
    /\ ~step_log.refused
    /\ Len(compared) = MaxFrames
    /\ admitted[MaxFrames] = 0
    /\ max_atoms_from_frame = 0
    /\ cfg.max_atoms_from_frame = Inf

\* C9: pre_run seeds an empty model, no seeds given, with exactly one atom
\* of each species of the first frame
C9_OneAtomPerSpecies ==
    (/\ pc = "run_setup"
     /\ ~cfg.gp_is_mapped
     /\ cfg.pre_train_on_skips <= 0
     /\ cfg.n_seed_frames = 0
     /\ initial_len = 0)
        => atom_count = Cardinality(coded_species)

\* C10: in run_active_learning the frame that seeded an empty model is not
\* a frame of the main loop, and none of its atoms is in the training set
\* twice
C10_SeedFrameExcluded ==
    (initial_len = 0 /\ pc \in {"active_loop", "done"})
        => /\ step_log.frame # 0
           /\ \A a \in Atoms : gp_added[<<0, a>>] <= 1

\* atoms added since the last training, in the driver that runs
atoms_since_train == train_model_atom_counter + cur_atoms_added_train

\* C11: in the retrain-timing scenario no training fires at steps 0 and 1,
\* where the atoms since the last training are 1 and 2; the first training
\* fires at step 2, and the atoms since the last training are 0 after it
C11_FirstRetrainAtStepTwo ==
    /\ step_log.step \in {0, 1} =>
          ~step_log.trained /\ atoms_since_train = step_log.step + 1
    /\ step_log.step = 2 => step_log.trained /\ atoms_since_train = 0

C11_Witness ==
    /\ pc = "active_loop"
    /\ step_log.step = 2
    /\ step_log.trained
    /\ train_counter = 1
    /\ train_model_atom_counter = 0
    /\ admitted = <<1, 1, 1>>

\* C12 as stated: in the retrain-timing scenario training fires exactly once
\* over the whole run
C12_TrainedOnce == pc = "done" => train_counter = 1

\* C12 as amended: in the retrain-timing scenario run_active_learning trains
\* at steps 2, 5 and 8, where the third atom since the last training is
\* added, and at the last step 9: four times over the whole run
C12_TrainedFourTimes ==
    /\ step_log.step >= 0 => (step_log.trained <=> step_log.step \in {2, 5, 8, 9})
    /\ pc = "done" => train_counter = 4

C12_Witness ==
    /\ pc = "done"
    /\ train_counter = 4
    /\ train_count = 4
    /\ step_log.step = 9
    /\ step_log.trained

\* C13: at the last frame of the training part a training fires unless
\* max_trains is used up, so no atom added since the last training is left
\* at the end of the training part
C13_FlushAtLastTrainingFrame ==
    (/\ step_log.step >= 0
     /\ step_log.step + 1 = train_frame
     /\ ~cfg.gp_is_mapped
     /\ train_model_atom_counter > 0)
        => train_counter >= cfg.max_trains

\* C14: write_model_decision called with train_counter = 0, with
\* write_model_atom_counter = 0 and with two positive intervals does not
\* fire and writes nothing
C14_NoWriteOnZeroCounters ==
    (/\ pc = "returned"
     /\ train_counter = 0
     /\ write_model_atom_counter = 0
     /\ cfg.write_model_train_interval > 0
     /\ cfg.write_model_atom_interval > 0)
        => /\ ~step_log.by_trains
           /\ ~step_log.by_atoms
           /\ written["checkpt"] = 0

\* C15: when the write decision of a step fired on the training interval,
\* the write decision of the next step does not fire on the training
\* interval unless a training was done in between
C15_TrainIntervalFiresOnce ==
    [][(/\ pc = "active_loop"
        /\ step_log.by_trains
        /\ step_log'.step = step_log.step + 1
        /\ ~step_log'.trained)
          => ~step_log'.by_trains]_vars

\* C16: a write fired by the training interval alone leaves the atoms since
\* the last write as they are: the atoms of the step are counted and the
\* counter is not reset
C16_AtomCounterKept ==
    [][(/\ pc = "active_loop"
        /\ i' = i + 1
        /\ step_log'.by_trains
        /\ ~step_log'.by_atoms)
          => write_model_atom_counter' =
                 write_model_atom_counter + Cardinality(step_log'.train_atoms)]_vars

\* the frames the loop of the running driver goes over
loop_frames ==
    IF pc = "run_loop" THEN every_skip(frames, cfg.skip) ELSE frames

\* C17: a step of the loop at an index i >= int(number of frames *
\* (1 - validate_ratio)) writes the comparison of the frame and leaves the
\* training set, the trainings done, every counter, the training plan and
\* the written files as they are
C17_ValidationStepOnlyRecords ==
    [][(/\ pc \in {"active_loop", "run_loop"}
        /\ i' = i + 1
        /\ 100 * (i + 1) > Len(loop_frames) * (100 - cfg.validate_pct)
        /\ cfg.validate_pct \in 0 .. 100)
          => /\ compared' = Append(compared, i)
             /\ gp_added' = gp_added
             /\ gp_envs' = gp_envs
             /\ train_count' = train_count
             /\ refresh_count' = refresh_count
             /\ train_model_atom_counter' = train_model_atom_counter
             /\ write_model_atom_counter' = write_model_atom_counter
             /\ train_counter' = train_counter
             /\ cur_atoms_added_train' = cur_atoms_added_train
             /\ cur_atoms_added_write' = cur_atoms_added_write
             /\ cur_trains_done_write' = cur_trains_done_write
             /\ max_atoms_from_frame' = max_atoms_from_frame
             /\ training_plan' = training_plan
             /\ written' = written]_vars

C17_Witness ==
    /\ pc = "run_loop"
    /\ cfg.validate_pct = 50
    /\ train_frame = 1
    /\ step_log.step = 2
    /\ step_log.in_bound
    /\ admitted[1] >= 1
    /\ admitted[3] = 0
    /\ compared = <<0, 1, 2>>

\* C18: run_active_learning given a validate_ratio outside [0, 1] stops
\* with an error before it processes a frame
C18_SplitOutOfRangeFatal ==
    cfg.validate_pct \notin 0 .. 100 => pc \in {"active_start", "aborted"}

\* the three tolerances are 0
zero_tolerances ==
    /\ cfg.abs_force_tolerance = 0
    /\ cfg.rel_std_tolerance = 0
    /\ cfg.abs_std_tolerance = 0

\* C19 as stated: with the three tolerances 0 every frame below the
\* validation boundary is judged out-of-bound
C19_NeverTrusted ==
    (/\ zero_tolerances
     /\ step_log.step >= 0
     /\ step_log.step < train_frame)
        => ~step_log.in_bound

\* C19 as amended: with the three tolerances 0 a frame whose predicted
\* forces all equal the ground truth is judged in-bound, whatever the
\* predicted uncertainties, and no atom of it is chosen
C19_ExactFrameTrusted ==
    (/\ zero_tolerances
     /\ \A s \in Species : cfg.err_vals[s] = {0}
     /\ step_log.step >= 0)
        => step_log.in_bound /\ step_log.train_atoms = {}

C19_Witness ==
    /\ zero_tolerances
    /\ \A s \in Species : cfg.err_vals[s] = {0} /\ cfg.std_vals[s] = {MaxStd}
    /\ pc = "done"
    /\ step_log.step = MaxFrames - 1
    /\ step_log.step < train_frame
    /\ step_log.in_bound
    /\ training_plan = << >>

\* what a step of the loop, or the end of the loop, does to the records
record_step ==
    pc \in {"active_loop", "run_loop"} =>
        /\ (i' = i + 1 => compared' = Append(compared, i))
        /\ (gp_added' # gp_added => compared'[Len(compared')] = i)
        /\ (pc' = "done" => (Len(compared) = Len(loop_frames)
                             /\ compared' = compared))

\* C20: every step of the loop writes exactly one comparison record, that of
\* its index i; the records are in increasing order of i, the record of a
\* frame is there when atoms of the frame are added, and at the end of the
\* loop every index has its record
C20_RecordAtEveryStep ==
    /\ [](pc \in {"active_loop", "run_loop"} =>
             compared = [k \in 1 .. i |-> k - 1])
    /\ [][record_step]_vars

C20_Witness ==
    /\ pc = "done"
    /\ compared = [k \in 1 .. MaxFrames |-> k - 1]
    /\ saturation_logs = 1
    /\ admitted[1] >= 1
    /\ step_log.in_bound
    /\ train_frame = MaxFrames

\* what one step of the frame loop does to the training plan: a record keyed
\* by the step index is made if and only if the step is below train_frame and
\* the frame was out of bound, it holds the selected atoms with their
\* uncertainty and error, and the records of the earlier steps are kept
plan_step ==
    /\ i' = i + 1 =>
          LET failed == i < train_frame /\ ~step_log'.in_bound
          IN  /\ DOMAIN training_plan' =
                     DOMAIN training_plan \cup (IF failed THEN {i} ELSE {})
              /\ failed =>
                     training_plan'[i] =
                         {<<a, step_log'.uncertainties[a], step_log'.force_errors[a]>>
                          : a \in step_log'.train_atoms}
              /\ \A k \in DOMAIN training_plan :
                     training_plan'[k] = training_plan[k]
    /\ (i' = i /\ pc \in {"active_loop", "run_loop", "done"}) =>
          training_plan' = training_plan

\* C21: the training plan has a record keyed by step index i if and only if
\* i is below the validation boundary and trust failed at step i; the record
\* lists exactly the atoms selected at that step with their uncertainty and
\* error, and it is never changed after its step
C21_PlanRecordsFailedSteps ==
    /\ [](pc \in {"active_loop", "run_loop", "done"} =>
            DOMAIN training_plan \subseteq {k \in 0 .. i - 1 : k < train_frame})
    /\ [][plan_step]_vars

\* the plan was written with two records, one of them with an uncertainty
\* and an error that are not 0, after a step that made no record
C21_Witness ==
    /\ pc = "done"
    /\ written["training_plan"] = 1
    /\ Cardinality(DOMAIN training_plan) = 2
    /\ i = 3
    /\ \E k \in DOMAIN training_plan : \E t \in training_plan[k] :
          t[2] > 0 /\ t[3] > 0

\* C22: with a mapped GP nothing is admitted, no training is done and no
\* model is written over the whole run, and the run is not aborted
C22_MappedReadOnly ==
    cfg.gp_is_mapped =>
        /\ pc # "aborted"
        /\ \A p \in DOMAIN gp_added : gp_added[p] = 0
        /\ train_count = 0
        /\ written["checkpt"] = 0
        /\ written["saturated"] = 0
        /\ written["prerun"] = 0
        /\ written["model"] = 0

\* no training point is removed
training_set_kept ==
    /\ \A s \in Species : gp_envs'[s] >= gp_envs[s]
    /\ \A p \in DOMAIN gp_added : gp_added'[p] >= gp_added[p]
    /\ otf'.gp_size >= otf.gp_size

\* C23: the training set of the GP never shrinks across the steps of run,
\* run_active_learning, run_passive_learning and OTF.run: points are only
\* appended
C23_TrainingSetNeverShrinks == [][training_set_kept]_vars

\* a trajectory driver has ended after it appended to a training set that
\* was not empty
C23_Witness ==
    /\ pc = "done"
    /\ SumOver(Species, gp_envs) > 0
    /\ SumOver(DOMAIN gp_added, gp_added) >= 2

\* C24: after the process was terminated, at any point of OTF.checkpoint
\* included, the checkpoint file is not there yet or is a complete checkpoint
C24_CheckpointNeverPartial ==
    pc = "otf_killed" => otf_files.checkpt.state \in {"absent", "complete"}

\* what the run does when run_dft_par raises: one call of checkpoint in the
\* step that fails, and nothing more by this run afterwards
oracle_failure_handled ==
    /\ (pc = "otf_loop" /\ pc' = "otf_failed") =>
          otf_log'.checkpoint_calls = otf_log.checkpoint_calls + 1
    /\ (pc = "otf_failed" /\ pc' # "otf_constructed") =>
          (otf' = otf /\ otf_log' = otf_log)

\* C25: when the oracle call fails in a step of OTF.run, exactly one
\* checkpoint write is attempted before the failure is propagated, and the
\* run neither calls the oracle again nor executes another step
C25_CheckpointOnOracleFailure == [][oracle_failure_handled]_vars

\* the steps first .. last - 1 in order
steps_from(first, last) ==
    [k \in 1 .. Max(0, last - first) |-> first + k - 1]

\* what a checkpoint holds when its file is completed, and what a new object
\* takes from it
checkpoint_step ==
    /\ (otf_files'.checkpt # otf_files.checkpt
            /\ otf_files'.checkpt.state = "complete") =>
          /\ otf_files'.checkpt.content.curr_step =
                 otf_log.start_step + Len(otf_log.executed)
          /\ otf_files'.checkpt.content.curr_step = otf.curr_step
          /\ otf_files'.checkpt.content.dft_count = otf.dft_count
    /\ (pc' = "otf_constructed" /\ pc # "otf_constructed") =>
          /\ otf'.curr_step = otf_files.checkpt.content.curr_step
          /\ otf'.dft_count = otf_files.checkpt.content.dft_count
          /\ otf'.std_tolerance = otf_files.checkpt.content.std_tolerance

\* the steps a resumed run has executed
resumed_steps ==
    (otf_log.run > 0 /\ pc # "otf_constructed") =>
        /\ otf_log.start_step = otf_log.resumed.curr_step
        /\ otf_log.executed =
               steps_from(otf_log.resumed.curr_step,
                          IF pc = "otf_failed" THEN otf.curr_step + 1
                          ELSE otf.curr_step)
        /\ ~otf_log.last.initial
        /\ pc = "otf_done" => otf.curr_step = otf.number_of_steps

\* C26: a checkpoint holds as curr_step the number of completed steps and
\* the oracle-call count; from_dict restores curr_step, dft_count and
\* std_tolerance from it, and the resumed run executes the steps from that
\* curr_step to number_of_steps - 1, none of the steps the checkpoint counts
\* as completed and no initial training
C26_ResumeFromNextStep == [][checkpoint_step]_vars /\ []resumed_steps

\* a run resumed from a checkpoint of a later step than 0, made after a call
\* of the oracle and with a tolerance that is not the default, has ended
\* after it executed a step
C26_Witness ==
    /\ pc = "otf_done"
    /\ otf_log.run = 1
    /\ otf_log.resumed.curr_step >= 1
    /\ otf_log.resumed.dft_count >= 1
    /\ otf_log.resumed.std_tolerance = 2
    /\ Len(otf_log.executed) >= 1


\* an iteration of the loop of OTF.run has come to its end
iteration_done ==
    /\ Len(otf_log'.executed) = Len(otf_log.executed) + 1
    /\ pc' # "otf_failed"

\* an iteration adds one to curr_step and executes the step curr_step
counted_iteration ==
    iteration_done =>
        /\ otf'.curr_step = otf.curr_step + 1
        /\ otf_log'.last.step = otf.curr_step

\* the loop is left when the budget of steps is used up
loop_exit ==
    (pc \in {"otf_checkpoint_end", "otf_done"}) =>
        /\ otf.curr_step = otf.number_of_steps
        /\ Len(otf_log.executed) = otf.number_of_steps - otf_log.start_step
        /\ otf_log.last.at_end

\* C27: when every call of the oracle and of the model returns, each
\* iteration of OTF.run adds exactly one to curr_step, the loop is left with
\* curr_step = number_of_steps after number_of_steps minus the initial
\* curr_step iterations, and the end of the run (conclude_run) is reached
C27_RunEndsOnStepBudget ==
    [][counted_iteration]_vars /\ []loop_exit /\ <>(pc = "otf_done")

C27_Witness ==
    /\ pc = "otf_done"
    /\ otf_log.start_step = 0
    /\ Len(otf_log.executed) = MaxSteps
    /\ otf_log.oracle_calls >= 2


\* the oracle is called again, after an earlier call
later_oracle_call ==
    /\ otf_log'.oracle_calls = otf_log.oracle_calls + 1
    /\ otf_log.oracle_calls >= 1

\* at least min_steps_with_model steps without the oracle lie between the
\* call and the one before it
model_steps_between ==
    later_oracle_call =>
        /\ otf_log.quiet_steps >= otf.min_steps_with_model
        /\ otf_log'.quiet_before = otf_log.quiet_steps
        /\ otf_log'.last.oracle

\* C28: between two consecutive calls of the oracle in OTF.run the model
\* takes at least min_steps_with_model steps on which the oracle is not
\* called, also when the uncertainty is out of bound on each of them
C28_ModelStepsBetweenOracleCalls == [][model_steps_between]_vars

C28_Witness ==
    /\ otf.min_steps_with_model = 1
    /\ otf_log.oracle_calls = 2
    /\ otf_log.last.oracle
    /\ otf_log.quiet_before = 1
    /\ otf_log.unsure_before = 1


\* C29: the hyperparameters are optimised at most freeze_hyps times in an
\* OTF run, the runs resumed from a checkpoint included: train_gp is called
\* after an update if and only if fewer than freeze_hyps calls of the oracle
\* came before the current one
C29_HypsOptimizedAtMostFreezeHyps ==
    /\ otf_log.trainings <= otf.freeze_hyps
    /\ (pc # "otf_constructed" /\ otf_log.last.updated) =>
           (otf_log.last.trained <=> otf.dft_count - 1 < otf.freeze_hyps)


\* an iteration of the loop has run, to its end or to a failure of the oracle
iteration_run == Len(otf_log'.executed) = Len(otf_log.executed) + 1

\* the loop has been left and the end of run is executed
run_ended == pc = "otf_loop" /\ pc' \in {"otf_checkpoint_end", "otf_done"}

\* write_gp and checkpoint have been called by the step taken
gp_write_called == (iteration_run \/ run_ended) /\ otf_log'.last.gp_written
checkpoint_called == otf_log'.checkpoint_calls = otf_log.checkpoint_calls + 1

\* what each value of write_model writes, and when
persistence_by_mode ==
    /\ otf.write_model = 0 =>
           ~gp_write_called /\ ~checkpoint_called /\ otf_files' = otf_files
    /\ otf.write_model = 1 =>
           (gp_write_called \/ checkpoint_called => run_ended)
    /\ otf.write_model = 2 =>
           /\ checkpoint_called => run_ended
           /\ iteration_run => (gp_write_called <=> otf_log'.last.trained)
    /\ otf.write_model = 3 =>
           /\ iteration_run => (gp_write_called <=> otf_log'.last.updated)
           /\ (iteration_run /\ pc' # "otf_failed") => pc' = "otf_step_end"
           /\ (pc = "otf_step_end" /\ pc' = "otf_checkpoint") => checkpoint_called
    /\ (otf.write_model >= 1 /\ run_ended) =>
           gp_write_called /\ checkpoint_called
    /\ gp_write_called => otf_files'.gp = complete_file(gp_of(otf'))
    /\ checkpoint_called => otf_files'.checkpt.content = as_dict(otf')

\* the files a run leaves
files_by_mode ==
    /\ (otf.write_model = 0 /\ otf_log.run = 0) =>
           /\ otf_files.gp.state = "absent"
           /\ otf_files.checkpt.state = "absent"
    /\ (otf.write_model \in {1, 2} /\ otf_log.run = 0 /\ pc # "otf_done") =>
           otf_files.checkpt.state \in {"absent", "partial"}
    /\ (otf.write_model >= 1 /\ pc = "otf_done") =>
           /\ otf_files.gp = complete_file(gp_of(otf))
           /\ otf_files.checkpt = complete_file(as_dict(otf))
    /\ (otf.write_model = 3 /\ pc = "otf_loop" /\ otf_log.executed # << >>) =>
           otf_files.checkpt = complete_file(as_dict(otf))

\* C30: with write_model 0 OTF writes neither the model nor a checkpoint;
\* with 1 it writes both at the end of the run only; with 2 it writes the
\* model after each training of the hyperparameters as well; with 3 it writes
\* the model after every update of the GP and a checkpoint after every step;
\* with every value from 1 on it writes both at the end of the run
C30_PersistenceFollowsWriteModel ==
    [][persistence_by_mode]_vars /\ []files_by_mode

C30_Witness ==
    /\ otf.write_model = 3
    /\ otf_log.last.updated
    /\ ~otf_log.last.trained
    /\ otf_log.last.gp_written
    /\ otf_log.checkpoint_calls >= 1
    /\ otf_files.gp = complete_file(gp_of(otf))


\* the number of atoms of species s the specification admits (4.1): the
\* least of what the frame has, the cap of the species in a frame, what is
\* left of the frame's budget, what is left of the global budget and what is
\* left of the cap of the species in the model
admitted_by_budgets(s, n_chosen, size, by_species, p) ==
    Max(0, Min(Cardinality(indices_of_specie(s)),
           Min(p.max_elts_per_frame[s],
           Min(p.max_atoms_per_frame - n_chosen,
           Min(p.max_model_size - size - n_chosen,
               p.max_model_elts[s] - by_species[s])))))

\* the atoms T were chosen species by species in this order, each species
\* with the number of atoms the budgets leave
RECURSIVE chosen_by_budgets(_, _, _, _, _, _)
chosen_by_budgets(order, n_chosen, T, size, by_species, p) ==
    IF order = <<>> THEN TRUE
    ELSE LET s == Head(order)
             n == Count(T, s)
         IN  /\ n = admitted_by_budgets(s, n_chosen, size, by_species, p)
             /\ chosen_by_budgets(Tail(order), n_chosen + n, T, size,
                                  by_species, p)

\* a frame of run_passive_learning has been processed
passive_frame_done == pc = "passive_loop" /\ i' = i + 1

passive_frame_by_budgets ==
    passive_frame_done =>
        /\ step_log'.added \subseteq Atoms
        /\ \E o \in Orders(coded_species) :
               chosen_by_budgets(o, 0, step_log'.added,
                                 gp_len(gp_envs, gp_added),
                                 envs_by_species(gp_envs, gp_added),
                                 passive_arguments)

\* C31: in run_passive_learning the number of atoms of each species added
\* from a frame is max(0, min(atoms of the species in the frame, cap of the
\* species per frame, max_atoms_per_frame minus the atoms already chosen
\* from the frame, max_model_size minus the model size minus the atoms
\* already chosen from the frame, cap of the species in the model minus its
\* count)), the chosen atoms being distinct atoms of the species
C31_PassiveAdmitsByBudgets == [][passive_frame_by_budgets]_vars


\* a step of a trajectory driver at which trust failed and atoms were added
step_with_admission ==
    /\ pc \in {"active_loop", "run_loop"}
    /\ i' = i + 1
    /\ step_log'.added # {}

\* train_gp: a full retrain; update_L_alpha: the refresh
full_retrain == train_count' = train_count + 1
refresh_only == refresh_count' = refresh_count + 1

\* the budget of retrains of the driver is used up
retrain_budget_exhausted ==
    IF pc = "active_loop" THEN train_counter >= cfg.max_trains
    ELSE train_count >= cfg.max_trains

model_current_after_admission ==
    step_with_admission =>
        /\ full_retrain \/ refresh_only
        /\ ~(full_retrain /\ refresh_only)
        /\ retrain_budget_exhausted => refresh_only

\* C33: at every step where trust fails and atoms are admitted the driver
\* runs a full retrain or refreshes the factorization before the next frame
\* is predicted, and it is the refresh that runs when the budget of retrains
\* is exhausted
C33_RefreshWhenBudgetExhausted == [][model_current_after_admission]_vars


\* what the last call of train_gp wrote to the run log
last_hyps_written == gp_train'.log[Len(gp_train'.log)]

\* train_gp has been called on a GP that is not mapped
train_gp_called == pc = "train_gp" /\ gp_train' # gp_train

train_gp_by_max_iter ==
    train_gp_called =>
        /\ Len(gp_train'.log) = Len(gp_train.log) + 1
        /\ train_count' = train_count + 1
        /\ gp_train'.maxiter = gp_train.maxiter
        /\ last_hyps_written.max_iter = 0 =>
               /\ ~last_hyps_written.optimized
               /\ last_hyps_written.refreshed
        /\ last_hyps_written.max_iter = None =>
               /\ last_hyps_written.optimized
               /\ last_hyps_written.maxiter = gp_train.maxiter
        /\ last_hyps_written.max_iter > 0 =>
               /\ last_hyps_written.optimized
               /\ last_hyps_written.maxiter = last_hyps_written.max_iter

no_sentinel_admitted ==
    /\ step_log.train_atoms \subseteq Atoms
    /\ step_log.added \subseteq Atoms
    /\ NoAtom \notin step_log.train_atoms
    /\ \A k \in DOMAIN training_plan :
           \A t \in training_plan[k] : t[1] \in Atoms
    /\ (pc \in {"active_loop", "run_loop"} /\ i > 0) =>
           admitted[Len(admitted)] = Cardinality(step_log.added)

\* a step gives the training set each admitted atom once, and nothing else
each_atom_once ==
    (pc \in {"active_loop", "run_loop"} /\ i' = i + 1) =>
        \A p \in DOMAIN gp_added :
            gp_added'[p] =
                gp_added[p] + (IF p[1] = step_log'.frame
                                  /\ p[2] \in step_log'.added THEN 1 ELSE 0)

\* C35: the atoms admitted at a step never hold the sentinel -1 and never
\* hold an atom twice; every admitted index is an atom of the frame and the
\* training plan records no sentinel
C35_NoSentinelAdmitted == []no_sentinel_admitted /\ [][each_atom_once]_vars

C35_Witness ==
    /\ pc = "run_loop"
    /\ i > 0
    /\ Len(cfg.species) = 2
    /\ Cardinality(step_log.train_atoms) = 1
    /\ step_log.added = step_log.train_atoms
    /\ i - 1 \in DOMAIN training_plan
    /\ Cardinality(training_plan[i - 1]) = 1


\* a step of the loop of run_active_learning
active_step_done == pc = "active_loop" /\ i' = i + 1

\* the atoms the step added to the training set
n_added == Cardinality(step_log'.added)

counters_follow_admissions ==
    active_step_done =>
        /\ train_model_atom_counter' =
               IF step_log'.trained THEN 0
               ELSE train_model_atom_counter + n_added
        /\ write_model_atom_counter' \in {0, write_model_atom_counter + n_added}
        /\ (step_log'.refused /\ step_log'.trained) =>
               active_retrain(train_model_atom_counter, i, train_counter)
        /\ (step_log'.refused /\ step_log'.by_atoms) =>
               atom_interval_fires(cfg.write_model_atom_interval,
                                   write_model_atom_counter)

\* C36: in run_active_learning the counters of atoms since the last train
\* and since the last write advance at a step by the number of atoms added
\* to the training set at that step; at a step whose admission is refused
\* because of the global cap they do not advance, and no retrain and no
\* write of the model is triggered by the atoms that were not admitted
C36_CountersFollowAdmissions == [][counters_follow_admissions]_vars


\* dft_count when run was entered
dft_count_at_start ==
    IF otf_log.run = 0 THEN 0 ELSE otf_log.resumed.dft_count

\* a call of the oracle that returns is followed in its step by one update of
\* the GP with one atom at least; a step without the oracle updates nothing
update_after_oracle ==
    iteration_run =>
        IF otf_log'.last.oracle /\ ~otf_log'.last.failed
        THEN /\ otf'.dft_count = otf.dft_count + 1
             /\ otf_log'.updates = otf_log.updates + 1
             /\ otf_log'.last.updated
             /\ otf'.gp_size > otf.gp_size
             /\ otf'.curr_step = otf.curr_step + 1
        ELSE /\ otf'.dft_count = otf.dft_count
             /\ otf_log'.updates = otf_log.updates
             /\ otf'.gp_size = otf.gp_size
             /\ ~otf_log'.last.updated

\* initialize_train runs at step 0 of a run on an empty GP with a tolerance
\* that is not 0, and in the first iteration only
initial_training_once ==
    (iteration_run /\ otf_log'.last.initial) =>
        /\ otf.curr_step = 0
        /\ otf.gp_size = 0
        /\ otf.std_tolerance # 0
        /\ otf_log.executed = << >>
        /\ otf_log.run = 0
        /\ otf_log'.last.oracle

\* at the end of a step dft_count counts the updates of the GP
updates_counted ==
    (pc \in {"otf_loop", "otf_step_end", "otf_checkpoint",
             "otf_checkpoint_end", "otf_done"}) =>
        otf.dft_count = dft_count_at_start + otf_log.updates

\* C37: in OTF.run every call of the oracle is followed in the same step,
\* before the MD advance, by exactly one update_gp, so that at every step
\* boundary dft_count is the number of updates of the GP; initialize_train
\* runs at most once, at step 0 only, on an empty training set with
\* std_tolerance # 0
C37_UpdateAfterEveryOracleCall ==
    /\ [][update_after_oracle]_vars
    /\ [][initial_training_once]_vars
    /\ []updates_counted

C37_Witness ==
    /\ pc = "otf_loop"
    /\ otf_log.run = 0
    /\ otf_log.executed = <<0, 1>>
    /\ otf.dft_count = 2
    /\ otf_log.updates = 2
    /\ otf.gp_size >= 2
    /\ otf_log.last.updated /\ ~otf_log.last.initial


\* C38: whenever OTF has written a checkpoint, the file of the GP the
\* checkpoint names has been written and holds the current training set of
\* the GP, also in a run that started from a GP with data and has not called
\* the oracle yet
C38_CheckpointHasModelFile ==
    (otf_files.checkpt.state = "complete"
        /\ pc \in {"otf_loop", "otf_step_end", "otf_done"}) =>
        /\ otf_files.gp.state = "complete"
        /\ otf_files.gp.content.gp_size = otf.gp_size

----------------------------------------------------------------------------
(* Properties of ParameterMasking *)

\* every group of the kernel gt has its parameters set
parameters_set(p, gt) ==
    \A j \in 1 .. n_of(p, gt) : (gt \o p.all_group_names[gt][j]) \in DOMAIN p.sigma

\* at least two species groups, at least one bond, triplet or many-body
\* group, and every such group with its parameters set
groups_with_parameters ==
    /\ n_of(pm, "specie") >= 2
    /\ n_of(pm, "bond") + n_of(pm, "triplet") + n_of(pm, "mb") > 0
    /\ parameters_set(pm, "bond")
    /\ parameters_set(pm, "triplet")
    /\ parameters_set(pm, "mb")

\* a mask over pairs of species: nspecie^2 ids below the group count, the
\* same for a pair and for the swapped pair
pair_mask_well_formed(mask, nspecie, ngroup) ==
    /\ DOMAIN mask = 0 .. nspecie ^ 2 - 1
    /\ \A x \in DOMAIN mask : mask[x] \in 0 .. ngroup - 1
    /\ \A s1, s2 \in 0 .. nspecie - 1 : mask[s1 * nspecie + s2] = mask[s2 * nspecie + s1]

\* a mask over triplets of species: nspecie^3 ids below the group count,
\* the same for every order of the three species
triplet_mask_well_formed(mask, nspecie, ngroup) ==
    /\ DOMAIN mask = 0 .. nspecie ^ 3 - 1
    /\ \A x \in DOMAIN mask : mask[x] \in 0 .. ngroup - 1
    /\ \A s1, s2, s3 \in 0 .. nspecie - 1 :
         \A t \in {<<s1, s3, s2>>, <<s2, s1, s3>>, <<s2, s3, s1>>, <<s3, s1, s2>>, <<s3, s2, s1>>} :
            mask[s1 * nspecie ^ 2 + s2 * nspecie + s3] = mask[t[1] * nspecie ^ 2 + t[2] * nspecie + t[3]]

\* the masks of a dictionary are well formed
masks_well_formed(hm) ==
    /\ "nbond" \in DOMAIN hm => pair_mask_well_formed(hm.bond_mask, hm.nspecie, hm.nbond)
    /\ "nmb" \in DOMAIN hm => pair_mask_well_formed(hm.mb_mask, hm.nspecie, hm.nmb)
    /\ "ntriplet" \in DOMAIN hm => triplet_mask_well_formed(hm.triplet_mask, hm.nspecie, hm.ntriplet)

\* generate_dict was called on the groups and has ended
generate_dict_called == pm.generated # "not called"

\* C32: once generate_dict is called on at least two species groups and
\* bond, triplet or many-body groups that all have their parameters, it
\* returns a dictionary whose bond, many-body and triplet masks are well
\* formed, and check_instantiation of that dictionary passes
C32_GeneratedMaskPassesCheck ==
    (generate_dict_called /\ groups_with_parameters) =>
        /\ pm.generated = "dict"
        /\ masks_well_formed(pm.hyps_mask)
        /\ pm.checked \in {"not called", "passed"}

\* the flags of the hyperparameters in the order of 'original': for each
\* kernel the signal variances of its groups, then their length scales,
\* and the noise last
flags_of_kernel(p, gt) ==
    [j \in 1 .. n_of(p, gt) |-> p.opt[gt \o p.all_group_names[gt][j] \o "sig"]] \o [j \in 1 .. n_of(p, gt) |-> p.opt[gt \o p.all_group_names[gt][j] \o "ls"]]

flags_of_original(p) ==
    flags_of_kernel(p, "bond") \o flags_of_kernel(p, "triplet") \o flags_of_kernel(p, "mb") \o <<p.opt.noise>>

\* the values in the order the claim gives for 'original'
values_of_kernel(p, gt) ==
    [j \in 1 .. n_of(p, gt) |-> p.sigma[gt \o p.all_group_names[gt][j]]] \o [j \in 1 .. n_of(p, gt) |-> p.ls[gt \o p.all_group_names[gt][j]]]

values_of_original(p) ==
    values_of_kernel(p, "bond") \o values_of_kernel(p, "triplet") \o values_of_kernel(p, "mb") \o <<p.noise>>

\* the positions of 'original', counted from 0, whose flag is True
optimized_positions(p) ==
    SelectSeq([k \in 1 .. Len(flags_of_original(p)) |-> k - 1], LAMBDA k : flags_of_original(p)[k + 1])

\* generate_dict returned a dictionary for groups of which some
\* hyperparameter is not to be optimized
some_frozen ==
    /\ pm.generated = "dict"
    /\ \E k \in 1 .. Len(flags_of_original(pm)) : ~flags_of_original(pm)[k]

\* C39: when some hyperparameter is marked non-optimizable, 'original' is
\* ordered per kernel as all signal variances then all length scales with
\* the noise last, 'map' lists exactly the positions of 'original' whose
\* flag is True, and 'hyps' is 'original' at those positions
C39_MapListsOptimizedPositions ==
    some_frozen =>
        /\ pm.hyps_mask.original = values_of_original(pm)
        /\ "map" \in DOMAIN pm.hyps_mask
        /\ pm.hyps_mask.map = optimized_positions(pm)
        /\ pm.hyps_mask.hyps = [k \in 1 .. Len(optimized_positions(pm)) |-> values_of_original(pm)[optimized_positions(pm)[k] + 1]]

============================================================================
